---- MODULE Spec2Model ----
(***************************************************************************)
(* react-native-vbump: version arithmetic (src/utils/version.js), the      *)
(* Android / iOS / package.json mutators (src/utils/android.js, ios.js,    *)
(* packageJson.js) and the orchestrator (src/index.js).                    *)
(*                                                                         *)
(* Text is a sequence of one-character strings, so that parsing and        *)
(* formatting are computed and not assumed.  A JavaScript value is a       *)
(* record [t, b, n, s]: its type tag, and its boolean / integer / string   *)
(* payload.  A platform file is the sequence of its field slots: a slot    *)
(* [key, val] is the text "<key> <val>" of the file (val is the text       *)
(* between the quotes for versionName, and the text between "= " and ";"   *)
(* for the two iOS keys); whether a regular expression of the code         *)
(* matches a slot is decided from val.                                     *)
(***************************************************************************)
EXTENDS Integers, Sequences, FiniteSets, TLC

VARIABLES
  androidDisk,   \* path -> Android build.gradle on disk
  iosDisk,       \* path -> iOS project.pbxproj on disk
  pkgDisk,       \* the shared package.json on disk
  disk0,         \* the three of them as they were at the start
  androidFiles,  \* resolved Android file list (paths)
  iosFiles,      \* resolved iOS file list (paths)
  options,       \* the options object passed through the run
  platforms,     \* result of determinePlatformsToUpdate
  pc,            \* position of executeVersionBump / of the API driver
  exitCode,      \* process exit code (-1 while running)
  env,           \* process.argv and process.env as the run reads them
  last,          \* the mutator calls of executePlatformUpdates and their outcomes
  arith          \* the last call of a version.js function

vars == <<androidDisk, iosDisk, pkgDisk, disk0, androidFiles, iosFiles,
          options, platforms, pc, exitCode, env, last, arith>>

----------------------------------------------------------------------------
(* Bounds *)

\* largest major / minor / patch component of the versions fed to version.js
MaxComp == 2
\* largest current build number fed to calculateNewBuildNumber
MaxBuild == 3
\* files in one platform's resolved file list
MaxFiles == 2
\* granular field flags (--android-build-number, ...) on one command line
MaxFieldFlags == 1
\* directories between the start directory and the filesystem root
MaxDepth == 2
\* entries of the ios directory, and patterns of ios.files
MaxChildren == 2
MaxPatterns == 2

----------------------------------------------------------------------------
(* Text *)

Digits == <<"0", "1", "2", "3", "4", "5", "6", "7", "8", "9">>

IsDigit(c) == \E i \in 1..Len(Digits) : Digits[i] = c

DigitVal(c) == (CHOOSE i \in 1..Len(Digits) : Digits[i] = c) - 1

RECURSIVE NumText(_)
\* decimal text of a non-negative integer
NumText(n) ==
  IF n < 10 THEN <<Digits[n + 1]>>
  ELSE NumText(n \div 10) \o <<Digits[(n % 10) + 1]>>

RECURSIVE DecVal(_)
\* value of a non-empty digit string
DecVal(ds) ==
  IF Len(ds) = 1 THEN DigitVal(ds[1])
  ELSE DecVal(SubSeq(ds, 1, Len(ds) - 1)) * 10 + DigitVal(ds[Len(ds)])

RECURSIVE DigitPrefixLen(_)
\* length of the longest prefix matching \d*
DigitPrefixLen(s) ==
  IF s = <<>> \/ ~IsDigit(Head(s)) THEN 0 ELSE 1 + DigitPrefixLen(Tail(s))

DigitPrefix(s) == SubSeq(s, 1, DigitPrefixLen(s))

Drop(s, k) == SubSeq(s, k + 1, Len(s))

AllDigits(s) == Len(s) > 0 /\ \A i \in 1..Len(s) : IsDigit(s[i])

\* the pieces with a character put in front of the first
PrependChar(c, pieces) == <<<<c>> \o Head(pieces)>> \o Tail(pieces)

----------------------------------------------------------------------------
(* JavaScript values *)

JV(t, b, n, s) == [t |-> t, b |-> b, n |-> n, s |-> s]

JNull == JV("null", FALSE, 0, <<>>)
JUndef == JV("undefined", FALSE, 0, <<>>)
JTrue == JV("boolean", TRUE, 0, <<>>)
JFalse == JV("boolean", FALSE, 0, <<>>)
JNaN == JV("nan", FALSE, 0, <<>>)
JNum(n) == JV("number", FALSE, n, <<>>)
JStr(s) == JV("string", FALSE, 0, s)

\* ToBoolean
Truthy(v) ==
  CASE v.t = "boolean" -> v.b
    [] v.t = "number" -> v.n # 0
    [] v.t = "string" -> Len(v.s) > 0
    [] OTHER -> FALSE

\* ToString, as used by template literals and by parseInt on a non-string
ToStr(v) ==
  CASE v.t = "string" -> v.s
    [] v.t = "number" -> IF v.n < 0 THEN <<"-">> \o NumText(0 - v.n) ELSE NumText(v.n)
    [] v.t = "nan" -> <<"N", "a", "N">>
    [] v.t = "boolean" -> IF v.b THEN <<"t", "r", "u", "e">> ELSE <<"f", "a", "l", "s", "e">>
    [] v.t = "null" -> <<"n", "u", "l", "l">>
    [] OTHER -> <<"u", "n", "d", "e", "f", "i", "n", "e", "d">>

\* parseInt(text): optional sign, then the longest digit prefix; NaN without one
ParseIntText(s) ==
  LET neg == s # <<>> /\ Head(s) = "-"
      body == IF s # <<>> /\ (Head(s) = "-" \/ Head(s) = "+") THEN Tail(s) ELSE s
      ds == DigitPrefix(body)
  IN IF ds = <<>> THEN JNaN
     ELSE IF neg THEN JNum(0 - DecVal(ds)) ELSE JNum(DecVal(ds))

parseInt(v) == ParseIntText(ToStr(v))

\* the + 1 of `parseInt(currentValue) + 1`
PlusOne(v) == IF v.t = "number" THEN JNum(v.n + 1) ELSE JNaN

----------------------------------------------------------------------------
(* src/utils/version.js *)

RECURSIVE SplitDots(_)
\* the maximal dot-free pieces of a text, in order ("1.0.2" has three, "1..2" has
\* an empty one in the middle)
SplitDots(s) ==
  IF s = <<>> THEN << <<>> >>
  ELSE IF Head(s) = "." THEN << <<>> >> \o SplitDots(Tail(s))
  ELSE PrependChar(Head(s), SplitDots(Tail(s)))

\* variant: the expression is not anchored at the end of the third number
MatchVersion_OpenEnded(groups, versionString) ==
  IF Len(groups) >= 3 /\ \A i \in 1..3 : AllDigits(groups[i])
  THEN [ok |-> TRUE, major |-> DecVal(groups[1]), minor |-> DecVal(groups[2]),
        patch |-> DecVal(groups[3]), err |-> "", input |-> versionString]
  ELSE [ok |-> FALSE, major |-> 0, minor |-> 0, patch |-> 0,
        err |-> "Invalid version format", input |-> versionString]

\* the match of /^(\d+)\.(\d+)\.(\d+)$/ : exactly three pieces, each \d+ ;
\* ok = FALSE models the thrown "Invalid version format"
MatchVersion(groups, versionString) ==
  IF Len(groups) = 3 /\ \A i \in 1..3 : AllDigits(groups[i])
  THEN [ok |-> TRUE, major |-> DecVal(groups[1]), minor |-> DecVal(groups[2]),
        patch |-> DecVal(groups[3]), err |-> "", input |-> versionString]
  ELSE [ok |-> FALSE, major |-> 0, minor |-> 0, patch |-> 0,
        err |-> "Invalid version format", input |-> versionString]

parseSemanticVersion(versionString) ==
  MatchVersion(SplitDots(versionString), versionString)

\* `${parsed.major}.${parsed.minor}.${parsed.patch}`
FormatVersion(major, minor, patch) ==
  NumText(major) \o <<".">> \o NumText(minor) \o <<".">> \o NumText(patch)

\* the switch (type) of incrementSemanticVersion and its return
IncrementParsed(parsed, type) ==
  IF ~parsed.ok THEN [ok |-> FALSE, val |-> <<>>, err |-> parsed.err]
  ELSE CASE type = "major" ->
              [ok |-> TRUE, val |-> FormatVersion(parsed.major + 1, 0, 0), err |-> ""]
         [] type = "minor" ->
              [ok |-> TRUE, val |-> FormatVersion(parsed.major, parsed.minor + 1, 0), err |-> ""]
         [] type = "patch" ->
              [ok |-> TRUE, val |-> FormatVersion(parsed.major, parsed.minor, parsed.patch + 1),
               err |-> ""]
         [] OTHER -> [ok |-> FALSE, val |-> <<>>, err |-> "Invalid increment type"]

\* the default parameter: type = 'patch' when the argument is undefined
TypeOrPatch(type) == IF type = "undefined" THEN "patch" ELSE type

\* mutant: the minor increment forgets to reset patch
IncrementParsed_KeepsPatch(parsed, type) ==
  IF ~parsed.ok THEN [ok |-> FALSE, val |-> <<>>, err |-> parsed.err]
  ELSE CASE type = "major" ->
              [ok |-> TRUE, val |-> FormatVersion(parsed.major + 1, 0, 0), err |-> ""]
         [] type = "minor" ->
              [ok |-> TRUE, val |-> FormatVersion(parsed.major, parsed.minor + 1, parsed.patch),
               err |-> ""]
         [] type = "patch" ->
              [ok |-> TRUE, val |-> FormatVersion(parsed.major, parsed.minor, parsed.patch + 1),
               err |-> ""]
         [] OTHER -> [ok |-> FALSE, val |-> <<>>, err |-> "Invalid increment type"]

incrementSemanticVersion_KeepsPatch(version, type) ==
  IncrementParsed_KeepsPatch(parseSemanticVersion(version), TypeOrPatch(type))

\* type is "undefined" when the argument is absent
incrementSemanticVersion(version, type) ==
  IncrementParsed(parseSemanticVersion(version), TypeOrPatch(type))

\* the returned string as a JavaScript value; ok = FALSE when the call threw
Returned(r) == [ok |-> r.ok, val |-> JStr(r.val), err |-> r.err]

calculateNewSemanticVersion(userValue, currentValue, incrementType) ==
  IF Truthy(userValue) /\ userValue # JTrue
  THEN [ok |-> TRUE, val |-> userValue, err |-> ""]
  ELSE Returned(incrementSemanticVersion(currentValue, incrementType))

\* mutant: auto-increment returns the current build number
calculateNewBuildNumber_NoIncrement(userValue, currentValue) ==
  IF Truthy(userValue) /\ userValue # JTrue
  THEN parseInt(userValue)
  ELSE parseInt(currentValue)

calculateNewBuildNumber(userValue, currentValue) ==
  IF Truthy(userValue) /\ userValue # JTrue
  THEN parseInt(userValue)
  ELSE PlusOne(parseInt(currentValue))

----------------------------------------------------------------------------
(* Files on disk *)

Tok(key, val) == [key |-> key, val |-> val]

\* does the regular expression the code uses for `key` match this slot
\*   versionCode\s+(\d+)   versionName\s+"([^"]+)"
\*   CURRENT_PROJECT_VERSION = (\d+);   MARKETING_VERSION = ([^;]+);
Matches(tok, key) ==
  /\ tok.key = key
  /\ CASE key = "versionCode" -> DigitPrefixLen(tok.val) > 0
       [] key = "CURRENT_PROJECT_VERSION" -> AllDigits(tok.val)
       [] OTHER -> Len(tok.val) > 0

\* the capture group of that regular expression
Captured(tok) ==
  IF tok.key = "versionCode" THEN DigitPrefix(tok.val) ELSE tok.val

\* the slot with its matched text replaced by the key and the new value
Replaced(tok, text) ==
  IF tok.key = "versionCode"
  THEN Tok(tok.key, text \o Drop(tok.val, DigitPrefixLen(tok.val)))
  ELSE Tok(tok.key, text)

MatchIndexes(toks, key) == {i \in 1..Len(toks) : Matches(toks[i], key)}

\* String.prototype.match without the g flag: the first match, 0 when there is none
FirstMatch(toks, key) ==
  IF MatchIndexes(toks, key) = {} THEN 0
  ELSE CHOOSE i \in MatchIndexes(toks, key) : \A j \in MatchIndexes(toks, key) : i <= j

\* String.prototype.replace with a regular expression without the g flag
ReplaceFirst(toks, key, text) ==
  LET at == FirstMatch(toks, key)
  IN [i \in 1..Len(toks) |-> IF i = at THEN Replaced(toks[i], text) ELSE toks[i]]

\* String.prototype.replace with a regular expression with the g flag
ReplaceAll(toks, key, text) ==
  [i \in 1..Len(toks) |-> IF Matches(toks[i], key) THEN Replaced(toks[i], text) ELSE toks[i]]

Change(platform, file, item, oldValue, newValue) ==
  [platform |-> platform, file |-> file, item |-> item,
   oldValue |-> oldValue, newValue |-> newValue]

\* the world a mutator call runs in and what it has returned so far
World(android, ios, pkg, opts) ==
  [android |-> android, ios |-> ios, pkg |-> pkg, options |-> opts,
   results |-> <<>>, threw |-> FALSE]

\* options.increment || 'patch'
IncrementOrPatch(increment) ==
  IF increment = "undefined" \/ increment = "" THEN "patch" ELSE increment

----------------------------------------------------------------------------
(* src/utils/packageJson.js *)

recordPackageJsonChange(w, oldVersion, newVersion) ==
  [w EXCEPT !.options.changes =
     Append(@, Change("Package.json", 0, "version", oldVersion, newVersion))]

\* mutant: the change is recorded but package.json is never written
updatePackageJsonVersion_NoWrite(w, newVersion) ==
  IF ~w.pkg.exists THEN w
  ELSE IF ~w.pkg.valid THEN [w EXCEPT !.threw = TRUE]
  ELSE IF ~Truthy(w.pkg.version) THEN w
  ELSE recordPackageJsonChange(w, w.pkg.version, newVersion)

\* variant: the file written holds the version key alone
updatePackageJsonVersion_DropsOtherKeys(w, newVersion) ==
  IF ~w.pkg.exists THEN w
  ELSE IF ~w.pkg.valid THEN [w EXCEPT !.threw = TRUE]
  ELSE IF ~Truthy(w.pkg.version) THEN w
  ELSE recordPackageJsonChange(
         IF ~w.options.dryRun THEN [w EXCEPT !.pkg.version = newVersion, !.pkg.others = {}]
         ELSE w,
         w.pkg.version, newVersion)

\* what updatePackageJsonVersion returns when it does not throw: null, or
\* { version: newVersion }, kept as its version
updatePackageJsonVersionResult(pkg, newVersion) ==
  IF ~pkg.exists THEN JNull
  ELSE IF ~Truthy(pkg.version) THEN JNull
  ELSE newVersion

\* w.results receives the returned {version}; the null returns append nothing
updatePackageJsonVersion(w, newVersion) ==
  IF ~w.pkg.exists THEN w
  ELSE IF ~w.pkg.valid THEN [w EXCEPT !.threw = TRUE]
  ELSE IF ~Truthy(w.pkg.version) THEN w
  ELSE LET w1 == IF ~w.options.dryRun THEN [w EXCEPT !.pkg.version = newVersion] ELSE w
       IN recordPackageJsonChange(w1, w.pkg.version, newVersion)

\* packageData.version || null, of a package.json that exists and parses
parsePackageJsonVersion(pkg) ==
  [version |-> IF Truthy(pkg.version) THEN pkg.version ELSE JNull]

----------------------------------------------------------------------------
(* src/utils/android.js *)

updateAndroidFileContent(toks, newVersionCode, newVersionName, updateVersionName) ==
  LET c1 == ReplaceFirst(toks, "versionCode", ToStr(newVersionCode))
  IN IF updateVersionName THEN ReplaceFirst(c1, "versionName", ToStr(newVersionName))
     ELSE c1

recordAndroidChanges(w, filePath, oldVersionCode, newVersionCode, oldVersionName, newVersionName, versionNameUpdated) ==
  LET c1 == Append(w.options.changes,
                   Change("Android", filePath, "versionCode", JStr(oldVersionCode), newVersionCode))
      c2 == IF versionNameUpdated
            THEN Append(c1, Change("Android", filePath, "versionName",
                                   JStr(oldVersionName), newVersionName))
            ELSE c1
  IN [w EXCEPT !.options.changes = c2]

\* options.packageJsonUpdated = true, reached unless updatePackageJsonVersion threw
markPackageJsonUpdated(p) ==
  IF p.threw THEN p ELSE [p EXCEPT !.options.packageJsonUpdated = TRUE]

\* android.js:87-91: the first file whose versionName was updated updates package.json
syncPackageJsonFromAndroid(w, newVersionName, versionNameUpdated) ==
  IF ~w.options.packageJsonUpdated /\ w.options.packageJsonPath /\ versionNameUpdated
  THEN markPackageJsonUpdated(updatePackageJsonVersion(w, newVersionName))
  ELSE w

\* mutant: the file is written in dry-run mode too
writeAndroidFile_Always(w, filePath, content) ==
  [w EXCEPT !.android[filePath].toks = content]

\* if (!options.dryRun) fs.writeFileSync(filePath, content)
writeAndroidFile(w, filePath, content) ==
  IF ~w.options.dryRun THEN [w EXCEPT !.android[filePath].toks = content] ELSE w

\* the value calculateNewSemanticVersion returned, or the current one for a field
\* that is not updated
NewOrCurrent(requested, current, increment) ==
  IF requested # JNull
  THEN calculateNewSemanticVersion(requested, current, IncrementOrPatch(increment))
  ELSE [ok |-> TRUE, val |-> JStr(current), err |-> ""]

\* return { filePath, versionCode, versionName }, unless an exception is on its way
returnResult(w, filePath, build, version) ==
  IF w.threw THEN w
  ELSE [w EXCEPT !.results =
          Append(@, [filePath |-> filePath, build |-> build, version |-> version])]

\* android.js:68-98: rewrite the content, write the file, record the changes,
\* update package.json, return
applyAndroidVersions(w, filePath, versionName, currentVersionCode, currentVersionName, newVersionCode, newVersionName) ==
  returnResult(
    syncPackageJsonFromAndroid(
      recordAndroidChanges(
        writeAndroidFile(w, filePath,
                         updateAndroidFileContent(w.android[filePath].toks, newVersionCode,
                                                  newVersionName, versionName # JNull)),
        filePath, currentVersionCode, newVersionCode, currentVersionName, newVersionName,
        versionName # JNull),
      newVersionName, versionName # JNull),
    filePath, newVersionCode, newVersionName)

\* variant: the new versionCode is written before the new versionName is computed
calculateAndroidVersions_WritesBuildFirst(w, filePath, versionCode, versionName, currentVersionCode, currentVersionName, nameCalc) ==
  IF ~nameCalc.ok
  THEN [writeAndroidFile(w, filePath,
                         updateAndroidFileContent(w.android[filePath].toks,
                                                  calculateNewBuildNumber(versionCode, JStr(currentVersionCode)),
                                                  JStr(currentVersionName), FALSE))
          EXCEPT !.threw = TRUE]
  ELSE applyAndroidVersions(w, filePath, versionName, currentVersionCode, currentVersionName,
                            calculateNewBuildNumber(versionCode, JStr(currentVersionCode)),
                            nameCalc.val)

\* android.js:62-66; nameCalc is what calculateNewSemanticVersion did (return or throw)
calculateAndroidVersions(w, filePath, versionCode, versionName, currentVersionCode, currentVersionName, nameCalc) ==
  IF ~nameCalc.ok THEN [w EXCEPT !.threw = TRUE]
  ELSE applyAndroidVersions(w, filePath, versionName, currentVersionCode, currentVersionName,
                            calculateNewBuildNumber(versionCode, JStr(currentVersionCode)),
                            nameCalc.val)

\* variant: a file lacking a field pattern is reported in the results all the same
readAndroidVersions_ReportsSkipped(w, filePath, versionCode, versionName, toks, codeAt, nameAt) ==
  IF codeAt = 0 \/ nameAt = 0 THEN returnResult(w, filePath, JNull, JNull)
  ELSE calculateAndroidVersions(w, filePath, versionCode, versionName,
                                Captured(toks[codeAt]), Captured(toks[nameAt]),
                                NewOrCurrent(versionName, Captured(toks[nameAt]),
                                             w.options.increment))

\* android.js:47-53, in a file that exists; toks is its content
readAndroidVersions(w, filePath, versionCode, versionName, toks, codeAt, nameAt) ==
  IF codeAt = 0 \/ nameAt = 0 THEN w
  ELSE calculateAndroidVersions(w, filePath, versionCode, versionName,
                                Captured(toks[codeAt]), Captured(toks[nameAt]),
                                NewOrCurrent(versionName, Captured(toks[nameAt]),
                                             w.options.increment))

processAndroidFile(w, filePath, versionCode, versionName) ==
  IF ~w.android[filePath].exists THEN w
  ELSE readAndroidVersions(w, filePath, versionCode, versionName, w.android[filePath].toks,
                           FirstMatch(w.android[filePath].toks, "versionCode"),
                           FirstMatch(w.android[filePath].toks, "versionName"))

\* null is JNull; the file is one that exists
parseAndroidVersions(file) ==
  LET codeAt == FirstMatch(file.toks, "versionCode")
      nameAt == FirstMatch(file.toks, "versionName")
  IN [versionCode |-> IF codeAt # 0 THEN parseInt(JStr(Captured(file.toks[codeAt])))
                      ELSE JNull,
      versionName |-> IF nameAt # 0 THEN JStr(Captured(file.toks[nameAt])) ELSE JNull]

RECURSIVE updateAndroidVersions(_, _, _, _)
updateAndroidVersions(w, files, versionCode, versionName) ==
  IF files = <<>> \/ w.threw THEN w
  ELSE updateAndroidVersions(processAndroidFile(w, Head(files), versionCode, versionName),
                             Tail(files), versionCode, versionName)

----------------------------------------------------------------------------
(* src/utils/ios.js *)

\* mutant: replace without the g flag
updateIOSFileContent_FirstOnly(toks, newCurrentProjectVersion, newMarketingVersion, updateCurrentProjectVersion, updateMarketingVersion) ==
  LET c1 == IF updateCurrentProjectVersion
            THEN ReplaceFirst(toks, "CURRENT_PROJECT_VERSION", ToStr(newCurrentProjectVersion))
            ELSE toks
  IN IF updateMarketingVersion
     THEN ReplaceFirst(c1, "MARKETING_VERSION", ToStr(newMarketingVersion))
     ELSE c1

updateIOSFileContent(toks, newCurrentProjectVersion, newMarketingVersion, updateCurrentProjectVersion, updateMarketingVersion) ==
  LET c1 == IF updateCurrentProjectVersion
            THEN ReplaceAll(toks, "CURRENT_PROJECT_VERSION", ToStr(newCurrentProjectVersion))
            ELSE toks
  IN IF updateMarketingVersion
     THEN ReplaceAll(c1, "MARKETING_VERSION", ToStr(newMarketingVersion))
     ELSE c1

recordIOSChanges(w, filePath, oldCurrentProjectVersion, newCurrentProjectVersion, oldMarketingVersion, newMarketingVersion, currentProjectVersionUpdated, marketingVersionUpdated) ==
  LET c1 == IF currentProjectVersionUpdated
            THEN Append(w.options.changes,
                        Change("iOS", filePath, "CURRENT_PROJECT_VERSION",
                               JStr(oldCurrentProjectVersion), newCurrentProjectVersion))
            ELSE w.options.changes
      c2 == IF marketingVersionUpdated
            THEN Append(c1, Change("iOS", filePath, "MARKETING_VERSION",
                                   JStr(oldMarketingVersion), newMarketingVersion))
            ELSE c1
  IN [w EXCEPT !.options.changes = c2]

\* mutant: the one-shot guard is not consulted
syncPackageJsonFromIOS_NoGuard(w, newMarketingVersion, marketingVersionUpdated) ==
  IF w.options.packageJsonPath /\ marketingVersionUpdated
  THEN markPackageJsonUpdated(updatePackageJsonVersion(w, newMarketingVersion))
  ELSE w

\* ios.js:110-114: the first file whose MARKETING_VERSION was updated updates package.json
syncPackageJsonFromIOS(w, newMarketingVersion, marketingVersionUpdated) ==
  IF ~w.options.packageJsonUpdated /\ w.options.packageJsonPath /\ marketingVersionUpdated
  THEN markPackageJsonUpdated(updatePackageJsonVersion(w, newMarketingVersion))
  ELSE w

\* if (!options.dryRun) fs.writeFileSync(filePath, content)
writeIOSFile(w, filePath, content) ==
  IF ~w.options.dryRun THEN [w EXCEPT !.ios[filePath].toks = content] ELSE w

\* ios.js:85-121: rewrite the content, write the file, record the changes,
\* update package.json, return
applyIOSVersions(w, filePath, currentProjectVersion, marketingVersion, currentProjectVersionValue, marketingVersionValue, newCurrentProjectVersion, newMarketingVersion) ==
  returnResult(
    syncPackageJsonFromIOS(
      recordIOSChanges(
        writeIOSFile(w, filePath,
                     updateIOSFileContent(w.ios[filePath].toks, newCurrentProjectVersion,
                                          newMarketingVersion, currentProjectVersion # JNull,
                                          marketingVersion # JNull)),
        filePath, currentProjectVersionValue, newCurrentProjectVersion, marketingVersionValue,
        newMarketingVersion, currentProjectVersion # JNull, marketingVersion # JNull),
      newMarketingVersion, marketingVersion # JNull),
    filePath, newCurrentProjectVersion, newMarketingVersion)

\* ios.js:71-83; marketingCalc is what calculateNewSemanticVersion did (return or throw)
calculateIOSVersions(w, filePath, currentProjectVersion, marketingVersion, currentProjectVersionValue, marketingVersionValue, marketingCalc) ==
  IF ~marketingCalc.ok THEN [w EXCEPT !.threw = TRUE]
  ELSE applyIOSVersions(w, filePath, currentProjectVersion, marketingVersion,
                        currentProjectVersionValue, marketingVersionValue,
                        IF currentProjectVersion # JNull
                        THEN calculateNewBuildNumber(currentProjectVersion,
                                                     JStr(currentProjectVersionValue))
                        ELSE parseInt(JStr(currentProjectVersionValue)),
                        marketingCalc.val)

\* ios.js:52-62, in a file that exists; toks is its content
readIOSVersions(w, filePath, currentProjectVersion, marketingVersion, toks, buildAt, marketingAt) ==
  IF buildAt = 0 \/ marketingAt = 0 THEN w
  ELSE calculateIOSVersions(w, filePath, currentProjectVersion, marketingVersion,
                            Captured(toks[buildAt]), Captured(toks[marketingAt]),
                            NewOrCurrent(marketingVersion, Captured(toks[marketingAt]),
                                         w.options.increment))

processIOSFile(w, filePath, currentProjectVersion, marketingVersion) ==
  IF ~w.ios[filePath].exists THEN w
  ELSE readIOSVersions(w, filePath, currentProjectVersion, marketingVersion,
                       w.ios[filePath].toks,
                       FirstMatch(w.ios[filePath].toks, "CURRENT_PROJECT_VERSION"),
                       FirstMatch(w.ios[filePath].toks, "MARKETING_VERSION"))

parseIOSVersions(file) ==
  LET buildAt == FirstMatch(file.toks, "CURRENT_PROJECT_VERSION")
      marketingAt == FirstMatch(file.toks, "MARKETING_VERSION")
  IN [currentProjectVersion |->
        IF buildAt # 0 THEN parseInt(JStr(Captured(file.toks[buildAt]))) ELSE JNull,
      marketingVersion |->
        IF marketingAt # 0 THEN JStr(Captured(file.toks[marketingAt])) ELSE JNull]

RECURSIVE updateIOSVersions(_, _, _, _)
updateIOSVersions(w, files, currentProjectVersion, marketingVersion) ==
  IF files = <<>> \/ w.threw THEN w
  ELSE updateIOSVersions(processIOSFile(w, Head(files), currentProjectVersion,
                                        marketingVersion),
                         Tail(files), currentProjectVersion, marketingVersion)

----------------------------------------------------------------------------
(* src/index.js *)

Includes(seq, x) == \E i \in 1..Len(seq) : seq[i] = x

\* options.androidBuildNumber !== undefined, and so on
Defined(v) == v # JUndef

\* the flag branch of determinePlatformsToUpdate; <<>> when no flag decides
PlatformsFromFlags(opts) ==
  IF opts.android /\ opts.ios THEN <<"android", "ios">>
  ELSE IF opts.android THEN <<"android">>
  ELSE IF opts.ios THEN <<"ios">>
  ELSE IF Defined(opts.versionCode) THEN <<"android-code-only">>
  ELSE IF Defined(opts.versionName) THEN <<"android-name-only">>
  ELSE IF Defined(opts.currentProjectVersion) THEN <<"ios-version-only">>
  ELSE IF Defined(opts.marketingVersion) THEN <<"ios-marketing-only">>
  ELSE IF opts.buildNumbers THEN <<"build-numbers-only">>
  ELSE <<>>

\* the choices of promptForPlatformSelection
PromptChoices ==
  {<<"android", "ios">>, <<"android">>, <<"ios">>, <<"build-numbers-only">>,
   <<"android-code-only">>, <<"ios-version-only">>}

\* p.includes('android') || p === 'build-numbers-only' for some selected p
needsAndroidFiles(sel) ==
  \E i \in 1..Len(sel) :
    sel[i] \in {"android", "android-code-only", "android-name-only", "build-numbers-only"}

\* variant: build-numbers-only is not counted as needing iOS files
needsIOSFiles_PlatformModesOnly(sel) ==
  \E i \in 1..Len(sel) : sel[i] \in {"ios", "ios-version-only", "ios-marketing-only"}

needsIOSFiles(sel) ==
  \E i \in 1..Len(sel) :
    sel[i] \in {"ios", "ios-version-only", "ios-marketing-only", "build-numbers-only"}

hasSpecificVersions(opts) ==
  \/ (Truthy(opts.versionName) /\ opts.versionName.t = "string")
  \/ (Truthy(opts.marketingVersion) /\ opts.marketingVersion.t = "string")

updatingAppVersions(sel) ==
  \/ Includes(sel, "android")
  \/ Includes(sel, "ios")
  \/ Includes(sel, "android-name-only")
  \/ Includes(sel, "ios-marketing-only")

\* the mutator calls of executePlatformUpdates, in the order of its if blocks
Call(fn, build, version) == [fn |-> fn, build |-> build, version |-> version]

PlatformCalls(sel, opts) ==
  (IF Includes(sel, "android")
   THEN <<Call("android", opts.versionCode, opts.versionName)>> ELSE <<>>)
  \o (IF Includes(sel, "android-code-only")
      THEN <<Call("android", opts.versionCode, JNull)>> ELSE <<>>)
  \o (IF Includes(sel, "android-name-only")
      THEN <<Call("android", JNull, opts.versionName)>> ELSE <<>>)
  \o (IF Includes(sel, "ios")
      THEN <<Call("ios", opts.currentProjectVersion, opts.marketingVersion)>> ELSE <<>>)
  \o (IF Includes(sel, "ios-version-only")
      THEN <<Call("ios", opts.currentProjectVersion, JNull)>> ELSE <<>>)
  \o (IF Includes(sel, "ios-marketing-only")
      THEN <<Call("ios", JNull, opts.marketingVersion)>> ELSE <<>>)
  \o (IF Includes(sel, "build-numbers-only")
      THEN <<Call("android", opts.versionCode, JNull),
             Call("ios", opts.currentProjectVersion, JNull)>>
      ELSE <<>>)

\* one awaited mutator call: the world after it, its return value in results
MutatorCall(w, c, aFiles, iFiles) ==
  LET w0 == [w EXCEPT !.results = <<>>]
  IN IF c.fn = "android" THEN updateAndroidVersions(w0, aFiles, c.build, c.version)
     ELSE updateIOSVersions(w0, iFiles, c.build, c.version)

\* what the log keeps of a call: its arguments and its outcome in world w1
Outcome(c, w1) ==
  [fn |-> c.fn, build |-> c.build, version |-> c.version,
   results |-> w1.results, threw |-> w1.threw]

RECURSIVE RunCalls(_, _, _, _, _)
RECURSIVE RunRest(_, _, _, _, _)
\* the calls one after the other until one throws; log keeps each call's outcome
RunCalls(w, calls, aFiles, iFiles, log) ==
  IF calls = <<>> \/ w.threw THEN [w |-> w, log |-> log]
  ELSE RunRest(MutatorCall(w, Head(calls), aFiles, iFiles), calls, aFiles, iFiles, log)

\* the calls after the first, from the world w1 the first has left
RunRest(w1, calls, aFiles, iFiles, log) ==
  RunCalls(w1, Tail(calls), aFiles, iFiles, Append(log, Outcome(Head(calls), w1)))

executePlatformUpdates(sel, aFiles, iFiles, w) ==
  RunCalls(w, PlatformCalls(sel, w.options), aFiles, iFiles, <<>>)

----------------------------------------------------------------------------
(* Fixtures: the texts and files the behaviours start from *)

V100 == <<"1", ".", "0", ".", "0">>
V102 == <<"1", ".", "0", ".", "2">>
V200 == <<"2", ".", "0", ".", "0">>
VBeta == <<"b", "e", "t", "a">>

File(toks) == [exists |-> TRUE, toks |-> toks]

\* tests/helpers/mockProject.js 'basic': versionCode 1, versionName "1.0.0"
GradleBasic == File(<<Tok("versionCode", <<"1">>), Tok("versionName", V100)>>)
\* a build.gradle with a second flavor block carrying its own two fields
GradleFlavors ==
  File(<<Tok("versionCode", <<"1">>), Tok("versionName", V100),
         Tok("versionCode", <<"7">>), Tok("versionName", V200)>>)
\* a build.gradle without versionName
GradleNoName == File(<<Tok("versionCode", <<"1">>)>>)
\* a build.gradle whose versionName is not major.minor.patch
GradleBeta == File(<<Tok("versionCode", <<"1">>), Tok("versionName", VBeta)>>)

AndroidContents == {GradleBasic, GradleFlavors, GradleNoName, GradleBeta}

PbxBasic ==
  File(<<Tok("CURRENT_PROJECT_VERSION", <<"1">>), Tok("MARKETING_VERSION", V100)>>)
\* Debug and Release build configurations with different current values
PbxTwoConfigs ==
  File(<<Tok("CURRENT_PROJECT_VERSION", <<"1">>), Tok("MARKETING_VERSION", V100),
         Tok("CURRENT_PROJECT_VERSION", <<"3">>), Tok("MARKETING_VERSION", V102)>>)
PbxNoMarketing == File(<<Tok("CURRENT_PROJECT_VERSION", <<"1">>)>>)
PbxBeta ==
  File(<<Tok("CURRENT_PROJECT_VERSION", <<"1">>), Tok("MARKETING_VERSION", VBeta)>>)

IOSContents == {PbxBasic, PbxTwoConfigs, PbxNoMarketing, PbxBeta}

\* the keys of a package.json other than version
OtherKeys == {"name", "scripts", "dependencies"}

\* a package.json: version is packageData.version, others the rest of packageData
Pkg(exists, valid, version) == [exists |-> exists, valid |-> valid, version |-> version, others |-> IF valid THEN OtherKeys ELSE {}]

PkgContents ==
  {Pkg(FALSE, FALSE, JUndef),      \* no package.json
   Pkg(TRUE, FALSE, JUndef),       \* not JSON
   Pkg(TRUE, TRUE, JUndef),        \* no version field
   Pkg(TRUE, TRUE, JStr(V100))}

\* the file lists of at most MaxFiles files in which at most one file departs
\* from the basic content
Disks(basic, cs) ==
  UNION {{[i \in 1..n |-> IF i = at THEN c ELSE basic] : at \in 1..n, c \in cs} :
           n \in 0..MaxFiles}
  \cup {<<>>}

\* at most one platform departs from the single basic file
Projects ==
  {[android |-> a, ios |-> <<PbxBasic>>] : a \in Disks(GradleBasic, AndroidContents)}
  \cup {[android |-> <<GradleBasic>>, ios |-> i] : i \in Disks(PbxBasic, IOSContents)}

\* what commander yields for --android-build-number [number] and --ios-build-number
BuildFlagValues == {JUndef, JTrue, JStr(<<"7">>), JStr(<<"-", "1">>)}
\* what it yields for --android-app-version [version] and --ios-app-version
VersionFlagValues == {JUndef, JTrue, JStr(V200)}

FieldFlags ==
  {f \in [versionCode : BuildFlagValues, versionName : VersionFlagValues,
          currentProjectVersion : BuildFlagValues, marketingVersion : VersionFlagValues] :
     Cardinality({k \in {"versionCode", "versionName", "currentProjectVersion",
                         "marketingVersion"} : Defined(f[k])}) <= MaxFieldFlags}

NoFieldFlags ==
  [versionCode |-> JUndef, versionName |-> JUndef,
   currentProjectVersion |-> JUndef, marketingVersion |-> JUndef]

\* the command lines: -a / -i with the field flags of the selected platforms,
\* field flags alone, --build-numbers alone, or nothing (the platform prompt)
FieldFlagsFor(a, i) ==
  {f \in FieldFlags :
     /\ (a /\ ~i) => ~Defined(f.currentProjectVersion) /\ ~Defined(f.marketingVersion)
     /\ (i /\ ~a) => ~Defined(f.versionCode) /\ ~Defined(f.versionName)}

CommandLines ==
  UNION {{[android |-> pf[1], ios |-> pf[2], buildNumbers |-> FALSE, fields |-> ff] :
            ff \in FieldFlagsFor(pf[1], pf[2])} : pf \in BOOLEAN \X BOOLEAN}
  \cup {[android |-> FALSE, ios |-> FALSE, buildNumbers |-> TRUE, fields |-> NoFieldFlags]}

\* --increment <type>: absent, or given with a value
IncrementFlags ==
  {[increment |-> "undefined", argvIncrement |-> FALSE]}
  \cup {[increment |-> k, argvIncrement |-> TRUE] : k \in {"minor", "bogus"}}

\* commander's options after mapOptionsToTechnicalTerms
InitOptions(cl, inc, dry) ==
  [android |-> cl.android, ios |-> cl.ios, buildNumbers |-> cl.buildNumbers,
   versionCode |-> cl.fields.versionCode, versionName |-> cl.fields.versionName,
   currentProjectVersion |-> cl.fields.currentProjectVersion,
   marketingVersion |-> cl.fields.marketingVersion,
   increment |-> inc.increment, dryRun |-> dry,
   packageJsonPath |-> TRUE, packageJsonUpdated |-> FALSE, changes |-> <<>>]

NoArith == [fn |-> "none"]

----------------------------------------------------------------------------
(* The run of executeVersionBump, from the files resolved (index.js:85) on *)

BasicProject == [android |-> <<GradleBasic>>, ios |-> <<PbxBasic>>]

\* scripted runs (NODE_ENV=test, as the integration tests run the CLI) start from
\* every project; interactive runs start from the basic project
Init ==
  /\ \E inter \in BOOLEAN :
       \E prj \in IF inter THEN {BasicProject} ELSE Projects, pkg \in PkgContents,
          cl \in CommandLines, inc \in IncrementFlags, dry \in BOOLEAN :
         /\ androidDisk = prj.android
         /\ iosDisk = prj.ios
         /\ pkgDisk = pkg
         /\ disk0 = [android |-> prj.android, ios |-> prj.ios, pkg |-> pkg]
         /\ androidFiles = [i \in 1..Len(prj.android) |-> i]
         /\ iosFiles = [i \in 1..Len(prj.ios) |-> i]
         /\ options = InitOptions(cl, inc, dry)
         /\ env = [argvIncrement |-> inc.argvIncrement, interactive |-> inter]
  /\ platforms = <<>>
  /\ pc = "SelectPlatforms"
  /\ exitCode = -1
  /\ last = <<>>
  /\ arith = NoArith

Exit(code) ==
  /\ pc' = "Exited"
  /\ exitCode' = code

\* index.js:88-106: determinePlatformsToUpdate, then the check that the selected
\* platforms have files
SelectPlatforms(sel) ==
  /\ pc = "SelectPlatforms"
  /\ IF PlatformsFromFlags(options) # <<>>
     THEN sel = PlatformsFromFlags(options)
     ELSE sel \in PromptChoices
  /\ platforms' = sel
  /\ IF (needsAndroidFiles(sel) /\ Len(androidFiles) = 0)
        \/ (needsIOSFiles(sel) /\ Len(iosFiles) = 0)
     THEN Exit(1)
     ELSE pc' = "SelectIncrement" /\ exitCode' = exitCode
  /\ UNCHANGED <<androidDisk, iosDisk, pkgDisk, disk0, androidFiles, iosFiles,
                 options, env, last, arith>>

\* the platform prompt is interrupted: handleUserCancellation exits 0
CancelPlatformPrompt ==
  /\ pc = "SelectPlatforms"
  /\ PlatformsFromFlags(options) = <<>>
  /\ Exit(0)
  /\ UNCHANGED <<androidDisk, iosDisk, pkgDisk, disk0, androidFiles, iosFiles,
                 options, platforms, env, last, arith>>

\* does determineIncrementType reach promptForIncrementType
PromptsForIncrement ==
  /\ ~env.argvIncrement
  /\ ~hasSpecificVersions(options)
  /\ updatingAppVersions(platforms)
  /\ env.interactive

\* index.js:109-110, determineIncrementType; answer is what the prompt returns
SelectIncrement(answer) ==
  /\ pc = "SelectIncrement"
  /\ IF PromptsForIncrement
     THEN answer \in {"major", "minor", "patch"}
     ELSE answer = IF env.argvIncrement THEN IncrementOrPatch(options.increment)
                   ELSE "patch"
  /\ options' = [options EXCEPT !.increment = answer]
  /\ pc' = "Confirm"
  /\ UNCHANGED <<androidDisk, iosDisk, pkgDisk, disk0, androidFiles, iosFiles,
                 platforms, exitCode, env, last, arith>>

CancelIncrementPrompt ==
  /\ pc = "SelectIncrement"
  /\ PromptsForIncrement
  /\ Exit(0)
  /\ UNCHANGED <<androidDisk, iosDisk, pkgDisk, disk0, androidFiles, iosFiles,
                 options, platforms, env, last, arith>>

\* variant: the confirmation prompt is shown in dry-run mode too
PromptsForConfirmation_EvenInDryRun == env.interactive

PromptsForConfirmation == ~options.dryRun /\ env.interactive

\* index.js:113, confirmChangesIfNeeded
ConfirmChanges ==
  /\ pc = "Confirm"
  /\ pc' = "Mutate"
  /\ UNCHANGED <<androidDisk, iosDisk, pkgDisk, disk0, androidFiles, iosFiles,
                 options, platforms, exitCode, env, last, arith>>

\* the answer is no, or the prompt is interrupted: exit 0
DeclineConfirmation ==
  /\ pc = "Confirm"
  /\ PromptsForConfirmation
  /\ Exit(0)
  /\ UNCHANGED <<androidDisk, iosDisk, pkgDisk, disk0, androidFiles, iosFiles,
                 options, platforms, env, last, arith>>

\* index.js:116, executePlatformUpdates; an error it throws leaves through the
\* catch block, which rethrows it: the run ends with exit code 1
Mutate ==
  /\ pc = "Mutate"
  /\ \E r \in {executePlatformUpdates(platforms, androidFiles, iosFiles,
                                      World(androidDisk, iosDisk, pkgDisk, options))} :
       /\ androidDisk' = r.w.android
       /\ iosDisk' = r.w.ios
       /\ pkgDisk' = r.w.pkg
       /\ options' = r.w.options
       /\ last' = r.log
       /\ IF r.w.threw THEN Exit(1) ELSE pc' = "Report" /\ exitCode' = exitCode
  /\ UNCHANGED <<disk0, androidFiles, iosFiles, platforms, env, arith>>

\* variant: displayResults fails on an empty change list, and the catch block
\* ends the run with exit code 1
Report_FailsWithoutChanges ==
  /\ pc = "Report"
  /\ IF options.changes = <<>> THEN Exit(1) ELSE pc' = "Done" /\ exitCode' = 0
  /\ UNCHANGED <<androidDisk, iosDisk, pkgDisk, disk0, androidFiles, iosFiles,
                 options, platforms, env, last, arith>>

\* index.js:119-120, displayResults and showNextSteps; the run ends with exit code 0
Report ==
  /\ pc = "Report"
  /\ pc' = "Done"
  /\ exitCode' = 0
  /\ UNCHANGED <<androidDisk, iosDisk, pkgDisk, disk0, androidFiles, iosFiles,
                 options, platforms, env, last, arith>>

Next ==
  \/ \E sel \in PromptChoices \cup {PlatformsFromFlags(options)} : SelectPlatforms(sel)
  \/ CancelPlatformPrompt
  \/ \E answer \in {"major", "minor", "patch", "bogus"} : SelectIncrement(answer)
  \/ CancelIncrementPrompt
  \/ ConfirmChanges
  \/ DeclineConfirmation
  \/ Mutate
  \/ Report

Spec == Init /\ [][Next]_vars

----------------------------------------------------------------------------
(* Calls of the version.js functions on their own *)

V12 == <<"1", ".", "2">>
V1234 == <<"1", ".", "2", ".", "3", ".", "4">>
V12a == <<"1", ".", "2", ".", "a">>
V123Alpha == <<"1", ".", "2", ".", "3", "-", "a">>
V010203 == <<"0", "1", ".", "0", "2", ".", "0", "3">>
V999 == <<"9", ".", "9", ".", "9">>

ArithVersions ==
  {FormatVersion(a, b, c) : a \in 0..MaxComp, b \in 0..MaxComp, c \in 0..MaxComp}
  \cup {V999, V010203, V12, V1234, V12a, V123Alpha, VBeta, <<>>}

ArithKinds == {"undefined", "major", "minor", "patch", "bogus", ""}

ArithBuildValues ==
  {JTrue, JFalse, JUndef, JNull, JStr(<<>>),
   JStr(<<"0">>), JNum(0), JStr(<<"7">>), JNum(7), JStr(<<"-", "1">>), JNum(-1),
   JStr(<<"a", "b", "c">>)}

ArithVersionValues == {JTrue, JFalse, JUndef, JNull, JStr(<<>>), JStr(V200), JStr(VBeta)}

ArithCurrents == {NumText(n) : n \in 0..MaxBuild} \cup {<<"4", "1">>, <<"x">>}

ArithCall(fn, version, type, user, current, ok, val) ==
  [fn |-> fn, version |-> version, type |-> type, user |-> user, current |-> current,
   ok |-> ok, val |-> val]

InitArith ==
  /\ androidDisk = <<>>
  /\ iosDisk = <<>>
  /\ pkgDisk = Pkg(FALSE, FALSE, JUndef)
  /\ disk0 = [android |-> <<>>, ios |-> <<>>, pkg |-> Pkg(FALSE, FALSE, JUndef)]
  /\ androidFiles = <<>>
  /\ iosFiles = <<>>
  /\ options = InitOptions([android |-> FALSE, ios |-> FALSE, buildNumbers |-> FALSE,
                            fields |-> NoFieldFlags],
                           [increment |-> "undefined"], FALSE)
  /\ env = [argvIncrement |-> FALSE, interactive |-> FALSE]
  /\ platforms = <<>>
  /\ pc = "arith"
  /\ exitCode = -1
  /\ last = <<>>
  /\ arith = NoArith

ArithFrame ==
  /\ pc = "arith"
  /\ pc' = "returned"
  /\ UNCHANGED <<androidDisk, iosDisk, pkgDisk, disk0, androidFiles, iosFiles,
                 options, platforms, exitCode, env, last>>

CallParseSemanticVersion(version) ==
  /\ ArithFrame
  /\ LET r == parseSemanticVersion(version)
     IN arith' = ArithCall("parseSemanticVersion", version, "undefined", JUndef, <<>>, r.ok,
                           IF r.ok THEN JStr(FormatVersion(r.major, r.minor, r.patch))
                           ELSE JUndef)

CallIncrementSemanticVersion(version, type) ==
  /\ ArithFrame
  /\ LET r == incrementSemanticVersion(version, type)
     IN arith' = ArithCall("incrementSemanticVersion", version, type, JUndef, <<>>, r.ok,
                           IF r.ok THEN JStr(r.val) ELSE JUndef)

CallCalculateNewSemanticVersion(user, version, type) ==
  /\ ArithFrame
  /\ LET r == calculateNewSemanticVersion(user, version, type)
     IN arith' = ArithCall("calculateNewSemanticVersion", version, type, user, <<>>, r.ok,
                           IF r.ok THEN r.val ELSE JUndef)

CallCalculateNewBuildNumber(user, current) ==
  /\ ArithFrame
  /\ arith' = ArithCall("calculateNewBuildNumber", <<>>, "undefined", user, current, TRUE,
                        calculateNewBuildNumber(user, JStr(current)))

NextArith ==
  \/ \E v \in ArithVersions : CallParseSemanticVersion(v)
  \/ \E v \in ArithVersions, k \in ArithKinds : CallIncrementSemanticVersion(v, k)
  \/ \E u \in ArithVersionValues, v \in ArithVersions, k \in ArithKinds :
       CallCalculateNewSemanticVersion(u, v, k)
  \/ \E u \in ArithBuildValues, c \in ArithCurrents : CallCalculateNewBuildNumber(u, c)

SpecArith == InitArith /\ [][NextArith]_vars

----------------------------------------------------------------------------
(* Version arithmetic: C8, C9, C10 *)

IncrementCall == arith.fn = "incrementSemanticVersion"
BuildCall == arith.fn = "calculateNewBuildNumber"

\* the components of a valid version, read digit group by digit group
Triple(version) ==
  LET p == parseSemanticVersion(version) IN <<p.major, p.minor, p.patch>>

ExpectedTriple(t, kind) ==
  CASE kind = "major" -> <<t[1] + 1, 0, 0>>
    [] kind = "minor" -> <<t[1], t[2] + 1, 0>>
    [] OTHER -> <<t[1], t[2], t[3] + 1>>

\* C8: for every valid version M.m.p, incrementSemanticVersion returns
\* M.m.(p+1) for patch and for an absent kind, M.(m+1).0 for minor and (M+1).0.0
\* for major, written in decimal without padding; with any other kind, or a
\* version that does not parse, it throws.
C8_IncrementOneStep ==
  IncrementCall =>
    IF parseSemanticVersion(arith.version).ok
       /\ arith.type \in {"undefined", "patch", "minor", "major"}
    THEN /\ arith.ok
         /\ Triple(arith.val.s) = ExpectedTriple(Triple(arith.version), arith.type)
         /\ parseSemanticVersion(arith.val.s).ok
         /\ \A i \in 1..Len(arith.val.s) :
              (arith.val.s[i] = "0" /\ (i = 1 \/ arith.val.s[i - 1] = "."))
                => (i = Len(arith.val.s) \/ arith.val.s[i + 1] = ".")
    ELSE ~arith.ok

\* C8 witness: 9.9.9 incremented by minor returned 9.10.0
C8_Witness ==
  /\ IncrementCall
  /\ arith.version = V999
  /\ arith.type = "minor"
  /\ arith.ok
  /\ arith.val.s = <<"9", ".", "1", "0", ".", "0">>

NotProvided == {JTrue, JUndef, JNull, JStr(<<>>), JFalse}

\* C9 (as claimed): calculateNewBuildNumber returns integer(currentValue) + 1 when
\* userValue is true, absent, null, "" or false, and the integer parse of
\* userValue for every other supplied value.
C9_BuildNumberAsClaimed ==
  BuildCall =>
    arith.val = IF arith.user \in NotProvided
                THEN PlusOne(ParseIntText(arith.current))
                ELSE ParseIntText(ToStr(arith.user))

\* C10 (as claimed): an explicit build number of numeric zero or "0" yields 0.
C10_ZeroIsAnOverride ==
  (BuildCall /\ arith.user \in {JNum(0), JStr(<<"0">>)}) => arith.val = JNum(0)

----------------------------------------------------------------------------
(* The mutators as the run calls them: C1 .. C7 *)

\* executePlatformUpdates has returned
Completed == pc \in {"Report", "Done"}

\* the calls of one mutator that the run has made
CallsOf(fn) == {k \in 1..Len(last) : last[k].fn = fn}

DiskOf(fn) == IF fn = "android" THEN androidDisk ELSE iosDisk
Disk0Of(fn) == IF fn = "android" THEN disk0.android ELSE disk0.ios
BuildKey(fn) == IF fn = "android" THEN "versionCode" ELSE "CURRENT_PROJECT_VERSION"
VersionKey(fn) == IF fn = "android" THEN "versionName" ELSE "MARKETING_VERSION"
PlatformName(fn) == IF fn = "android" THEN "Android" ELSE "iOS"

\* the text of every slot of one field, in file order
SlotTexts(file, key) ==
  [i \in 1..Len(file.toks) |-> IF file.toks[i].key = key THEN file.toks[i].val ELSE <<>>]

\* the first matching value of a field as the file had it at the start
Original(fn, path, key) ==
  LET toks == Disk0Of(fn)[path].toks IN Captured(toks[FirstMatch(toks, key)])

RecordsFor(platform, item) ==
  {k \in 1..Len(options.changes) :
     options.changes[k].platform = platform /\ options.changes[k].item = item}

\* a skipped field: untouched on disk, returned as it was, not recorded
SkipHonoured(fn, key, returned, asNumber) ==
  /\ \A path \in 1..Len(DiskOf(fn)) :
       SlotTexts(DiskOf(fn)[path], key) = SlotTexts(Disk0Of(fn)[path], key)
  /\ \A k \in CallsOf(fn) : \A j \in 1..Len(last[k].results) :
       LET r == last[k].results[j]
           text == Original(fn, r.filePath, key)
       IN r[returned] = IF asNumber THEN ParseIntText(text) ELSE JStr(text)
  /\ RecordsFor(PlatformName(fn), key) = {}

SkipsBuild(fn) == \E k \in CallsOf(fn) : last[k].build = JNull /\ last[k].version # JNull
SkipsVersion(fn) == \E k \in CallsOf(fn) : last[k].version = JNull /\ last[k].build # JNull

\* C1 (as claimed): for each of the four platform fields, a mutator call that
\* marks the field Skip (null) while updating the other field leaves every
\* occurrence of the skipped field's text on disk unchanged, returns the
\* original value for it, and appends no change record for it.
C1_SkipLeavesFieldUntouched ==
  \A fn \in {"android", "ios"} :
    /\ SkipsBuild(fn) => SkipHonoured(fn, BuildKey(fn), "build", TRUE)
    /\ SkipsVersion(fn) => SkipHonoured(fn, VersionKey(fn), "version", FALSE)

\* Skip is honoured for the three fields other than Android versionCode
C1_SkipHonouredElsewhere ==
  /\ SkipsBuild("ios") => SkipHonoured("ios", "CURRENT_PROJECT_VERSION", "build", TRUE)
  /\ \A fn \in {"android", "ios"} :
       SkipsVersion(fn) => SkipHonoured(fn, VersionKey(fn), "version", FALSE)

----------------------------------------------------------------------------

\* the record the change log holds for one field of one file
HasRecord(platform, path, item, oldValue, newValue) ==
  \E k \in 1..Len(options.changes) :
    options.changes[k] = Change(platform, path, item, oldValue, newValue)

\* a call reported a field it was asked to update: the returned value is new and
\* the change log holds it against the value on disk at the start
Reported(fn, k) ==
  \A j \in 1..Len(last[k].results) :
    LET r == last[k].results[j] IN
    /\ last[k].build # JNull =>
         /\ r.build # ParseIntText(Original(fn, r.filePath, BuildKey(fn)))
         /\ HasRecord(PlatformName(fn), r.filePath, BuildKey(fn),
                      JStr(Original(fn, r.filePath, BuildKey(fn))), r.build)
    /\ last[k].version # JNull =>
         /\ r.version # JStr(Original(fn, r.filePath, VersionKey(fn)))
         /\ HasRecord(PlatformName(fn), r.filePath, VersionKey(fn),
                      JStr(Original(fn, r.filePath, VersionKey(fn))), r.version)

\* files of a list that a mutator processes: both field patterns match
Recognized(fn, file) ==
  FirstMatch(file.toks, BuildKey(fn)) # 0 /\ FirstMatch(file.toks, VersionKey(fn)) # 0

PackageRecords == RecordsFor("Package.json", "version")

\* C2: with the dry-run flag set no mutator changes the on-disk content of any
\* file (Android, iOS, package.json), whatever calls the run makes; each call
\* still returns a result for every recognized file with the new values, and the
\* change log still receives the records, the package.json record included.
C2_DryRunWritesNothing ==
  options.dryRun =>
    /\ androidDisk = disk0.android
    /\ iosDisk = disk0.ios
    /\ pkgDisk = disk0.pkg
    /\ Completed =>
         \A k \in 1..Len(last) :
           /\ Reported(last[k].fn, k)
           /\ Len(last[k].results) =
                Cardinality({path \in 1..Len(DiskOf(last[k].fn)) :
                               Recognized(last[k].fn, DiskOf(last[k].fn)[path])})
           /\ (last[k].version # JNull /\ last[k].results # <<>>
               /\ Truthy(pkgDisk.version) /\ k = 1)
                => \E c \in PackageRecords :
                     /\ options.changes[c].oldValue = pkgDisk.version
                     /\ options.changes[c].newValue = last[k].results[1].version

\* C2 witness: a completed dry run of both platforms that reported new values for
\* both and a package.json record
C2_Witness ==
  /\ options.dryRun
  /\ pc = "Done"
  /\ Len(last) = 2
  /\ last[1].results # <<>>
  /\ last[2].results # <<>>
  /\ last[1].results[1].build = JNum(2)
  /\ PackageRecords # {}

----------------------------------------------------------------------------

UpdatesVersion(fn) == \E k \in CallsOf(fn) : last[k].version # JNull

\* the calls that updated a semantic version and processed a file, in call order
VersionCalls == {k \in 1..Len(last) : last[k].version # JNull /\ last[k].results # <<>>}

\* the semantic version computed for the first platform file processed
FirstVersionComputed ==
  LET k == CHOOSE k \in VersionCalls : \A m \in VersionCalls : k <= m
  IN last[k].results[1].version

ManifestHasVersion == disk0.pkg.exists /\ disk0.pkg.valid /\ Truthy(disk0.pkg.version)

\* C3 (as claimed): the change log receives at most one package.json record, and
\* only from a file whose semantic version was updated; when both the Android and
\* the iOS mutator run with semantic-version updates enabled there is exactly one
\* such record and its new value is the semantic version computed for the first
\* platform file processed.
C3_AsClaimed ==
  /\ Cardinality(PackageRecords) <= 1
  /\ PackageRecords # {} => VersionCalls # {}
  /\ (Completed /\ UpdatesVersion("android") /\ UpdatesVersion("ios")) =>
       /\ Cardinality(PackageRecords) = 1
       /\ \A c \in PackageRecords : options.changes[c].newValue = FirstVersionComputed

\* C3 (amended): at most one package.json record, and only from a file whose
\* semantic version was updated; when both mutators run with semantic-version
\* updates enabled, a platform file was processed and package.json exists with a
\* version, there is exactly one record, from the old manifest version to the
\* semantic version computed for the first platform file processed; when no file
\* was processed, or package.json is missing or has no version, there is none.
C3_SingleManifestRecord ==
  /\ Cardinality(PackageRecords) <= 1
  /\ PackageRecords # {} => VersionCalls # {}
  /\ (Completed /\ UpdatesVersion("android") /\ UpdatesVersion("ios")) =>
       IF VersionCalls # {} /\ ManifestHasVersion
       THEN /\ Cardinality(PackageRecords) = 1
            /\ \A c \in PackageRecords :
                 /\ options.changes[c].newValue = FirstVersionComputed
                 /\ options.changes[c].oldValue = disk0.pkg.version
       ELSE PackageRecords = {}

\* C3 witness: both platforms updated, two Android files, one package.json record
C3_Witness ==
  /\ pc = "Done"
  /\ platforms = <<"android", "ios">>
  /\ Len(androidFiles) = 2
  /\ Len(last) = 2
  /\ Len(last[1].results) = 2
  /\ Len(last[2].results) = 1
  /\ Cardinality(PackageRecords) = 1

----------------------------------------------------------------------------

V101 == <<"1", ".", "0", ".", "1">>
V110 == <<"1", ".", "1", ".", "0">>

Auto(v) == v \in {JUndef, JTrue}

\* both platforms selected, every field auto-incremented
FullAuto ==
  /\ platforms = <<"android", "ios">>
  /\ Auto(options.versionCode) /\ Auto(options.versionName)
  /\ Auto(options.currentProjectVersion) /\ Auto(options.marketingVersion)

BasicDisk ==
  [android |-> <<GradleBasic>>, ios |-> <<PbxBasic>>, pkg |-> Pkg(TRUE, TRUE, JStr(V100))]

\* the k-increment of 1.0.0
Bumped100(kind) ==
  CASE kind = "major" -> V200
    [] kind = "minor" -> V110
    [] OTHER -> V101

\* a file in which the semantic-version pattern of its platform matches
CarriesVersion(fn, file) == FirstMatch(file.toks, VersionKey(fn)) # 0

\* the semantic versions a project carries: the first versionName of every
\* build.gradle that has one, the first MARKETING_VERSION of every
\* project.pbxproj that has one, and the package.json version
Semvers(android, ios, pkg) ==
  {parseAndroidVersions(android[path]).versionName :
     path \in {q \in 1..Len(android) : CarriesVersion("android", android[q])}}
  \cup {parseIOSVersions(ios[path]).marketingVersion :
          path \in {q \in 1..Len(ios) : CarriesVersion("ios", ios[q])}}
  \cup {pkg.version}

\* Android, iOS and package.json each carry a semantic version, and all are equal
ThreeEqual(android, ios, pkg) ==
  /\ \E path \in 1..Len(android) : CarriesVersion("android", android[path])
  /\ \E path \in 1..Len(ios) : CarriesVersion("ios", ios[path])
  /\ pkg.exists /\ pkg.valid /\ Truthy(pkg.version)
  /\ Cardinality(Semvers(android, ios, pkg)) = 1

\* the build number of every recognized file has grown by one
BuildsGrewByOne ==
  /\ \A path \in 1..Len(androidDisk) :
       Recognized("android", disk0.android[path]) =>
         parseAndroidVersions(androidDisk[path]).versionCode =
           PlusOne(parseAndroidVersions(disk0.android[path]).versionCode)
  /\ \A path \in 1..Len(iosDisk) :
       Recognized("ios", disk0.ios[path]) =>
         parseIOSVersions(iosDisk[path]).currentProjectVersion =
           PlusOne(parseIOSVersions(disk0.ios[path]).currentProjectVersion)

\* C4: a completed, non-dry-run full update of both platforms with auto-increment
\* of kind k turns versionCode 1 / versionName "1.0.0" / CURRENT_PROJECT_VERSION 1
\* / MARKETING_VERSION 1.0.0 / package.json 1.0.0 into versionCode 2,
\* CURRENT_PROJECT_VERSION 2 and the k-increment of 1.0.0 in versionName,
\* MARKETING_VERSION and package.json; from any project, each build number (as
\* parseAndroidVersions / parseIOSVersions read it) grows by exactly 1 and the
\* three semantic versions end equal whenever they started equal.
C4_FullUpdate ==
  (Completed /\ ~options.dryRun /\ FullAuto) =>
    /\ disk0 = BasicDisk =>
         /\ androidDisk = <<File(<<Tok("versionCode", <<"2">>),
                                   Tok("versionName", Bumped100(options.increment))>>)>>
         /\ iosDisk = <<File(<<Tok("CURRENT_PROJECT_VERSION", <<"2">>),
                               Tok("MARKETING_VERSION", Bumped100(options.increment))>>)>>
         /\ pkgDisk = Pkg(TRUE, TRUE, JStr(Bumped100(options.increment)))
    /\ BuildsGrewByOne
    /\ ThreeEqual(disk0.android, disk0.ios, disk0.pkg) =>
         /\ ThreeEqual(androidDisk, iosDisk, pkgDisk)
         /\ pkgDisk.version # disk0.pkg.version

\* C4 witness: the minor full update of the basic project has ended with 1.1.0
C4_Witness ==
  /\ pc = "Done"
  /\ ~options.dryRun
  /\ FullAuto
  /\ disk0 = BasicDisk
  /\ options.increment = "minor"
  /\ pkgDisk.version = JStr(V110)
  /\ parseAndroidVersions(androidDisk[1]).versionCode = JNum(2)

----------------------------------------------------------------------------

VersionNames(android) ==
  {parseAndroidVersions(android[path]).versionName :
     path \in {q \in 1..Len(android) : CarriesVersion("android", android[q])}}

MarketingVersions(ios) ==
  {parseIOSVersions(ios[path]).marketingVersion :
     path \in {q \in 1..Len(ios) : CarriesVersion("ios", ios[q])}}

SameVersionRequest ==
  \/ Auto(options.versionName) /\ Auto(options.marketingVersion)
  \/ options.versionName = options.marketingVersion

----------------------------------------------------------------------------

\* every occurrence of an updated field of a processed file carries the returned
\* value
AllOccurrencesRewritten(fn, k) ==
  \A j \in 1..Len(last[k].results) :
    LET r == last[k].results[j]
        before == Disk0Of(fn)[r.filePath].toks
        after == DiskOf(fn)[r.filePath].toks
    IN /\ Len(after) = Len(before)
       /\ \A i \in 1..Len(before) :
            /\ (last[k].build # JNull /\ Matches(before[i], BuildKey(fn))) =>
                 after[i] = Tok(BuildKey(fn), ToStr(r.build))
            /\ (last[k].version # JNull /\ Matches(before[i], VersionKey(fn))) =>
                 after[i] = Tok(VersionKey(fn), ToStr(r.version))

\* what is not an occurrence of an updated field of a processed file is unchanged
NothingElseChanged(fn, k) ==
  \A j \in 1..Len(last[k].results) :
    LET r == last[k].results[j]
        before == Disk0Of(fn)[r.filePath].toks
        after == DiskOf(fn)[r.filePath].toks
    IN /\ Len(after) = Len(before)
       /\ \A i \in 1..Len(before) :
            (/\ ~(last[k].build # JNull /\ Matches(before[i], BuildKey(fn)))
             /\ ~(last[k].version # JNull /\ Matches(before[i], VersionKey(fn))))
              => after[i] = before[i]

\* the returned values of an auto-incremented field come from its first occurrence
DerivedFromFirst(fn, k) ==
  \A j \in 1..Len(last[k].results) :
    LET r == last[k].results[j] IN
    /\ Auto(last[k].build) =>
         r.build = PlusOne(ParseIntText(Original(fn, r.filePath, BuildKey(fn))))
    /\ Auto(last[k].version) =>
         Triple(r.version.s) =
           ExpectedTriple(Triple(Original(fn, r.filePath, VersionKey(fn))), options.increment)

\* C6: when an iOS field is updated in a file with N occurrences of it (with
\* possibly different current values), all N occurrences are rewritten to the one
\* new value, which is derived from the first occurrence; the file keeps its N
\* occurrences and nothing else in it changes.
C6_AllIOSOccurrences ==
  (Completed /\ ~options.dryRun) =>
    \A k \in CallsOf("ios") :
      /\ AllOccurrencesRewritten("ios", k)
      /\ NothingElseChanged("ios", k)
      /\ DerivedFromFirst("ios", k)

\* C6 witness: the two build configurations (1 / 1.0.0 and 3 / 1.0.2) both read
\* 2 and 1.0.1 after a patch update
C6_Witness ==
  /\ pc = "Done"
  /\ ~options.dryRun
  /\ disk0.ios = <<PbxTwoConfigs>>
  /\ iosDisk = <<File(<<Tok("CURRENT_PROJECT_VERSION", <<"2">>), Tok("MARKETING_VERSION", V101),
                        Tok("CURRENT_PROJECT_VERSION", <<"2">>),
                        Tok("MARKETING_VERSION", V101)>>)>>

\* C7 (as claimed): when versionCode or versionName is updated in a build.gradle
\* that contains the field's pattern more than once, every occurrence is replaced
\* with the new value.
C7_AllAndroidOccurrences ==
  (Completed /\ ~options.dryRun) =>
    \A k \in CallsOf("android") : AllOccurrencesRewritten("android", k)

----------------------------------------------------------------------------

\* the build number / semantic version a platform's parse function reads
ParsedBuild(fn, file) ==
  IF fn = "android" THEN parseAndroidVersions(file).versionCode
  ELSE parseIOSVersions(file).currentProjectVersion

ParsedVersion(fn, file) ==
  IF fn = "android" THEN parseAndroidVersions(file).versionName
  ELSE parseIOSVersions(file).marketingVersion

\* a build number the field patterns (\d+) can read back
Readable(build) == build.t = "number" /\ build.n >= 0

\* every field a call was asked to update reads back as the value it returned
ReadsBack(fn, k, anyBuild) ==
  \A j \in 1..Len(last[k].results) :
    /\ (last[k].build # JNull /\ (anyBuild \/ Readable(last[k].results[j].build))) =>
         ParsedBuild(fn, DiskOf(fn)[last[k].results[j].filePath]) = last[k].results[j].build
    /\ last[k].version # JNull =>
         ParsedVersion(fn, DiskOf(fn)[last[k].results[j].filePath])
           = last[k].results[j].version

ManifestReadsBack ==
  \A c \in PackageRecords :
    parsePackageJsonVersion(pkgDisk).version = options.changes[c].newValue

\* C11 (as claimed): after a non-dry-run mutation that sets a field (versionCode,
\* versionName, CURRENT_PROJECT_VERSION, MARKETING_VERSION, package.json version)
\* to a value v, auto-incremented or any accepted explicit override, the
\* corresponding parse function reads exactly v back.
C11_RoundTrip ==
  (Completed /\ ~options.dryRun) =>
    /\ \A k \in 1..Len(last) : ReadsBack(last[k].fn, k, TRUE)
    /\ ManifestReadsBack

\* the round trip holds for every value but a build number that is not a
\* non-negative integer
C11_RoundTripOfReadableValues ==
  (Completed /\ ~options.dryRun) =>
    /\ \A k \in 1..Len(last) : ReadsBack(last[k].fn, k, FALSE)
    /\ ManifestReadsBack

----------------------------------------------------------------------------
(* Calls of the exported mutators on their own, as the unit tests make them *)

\* a path at which fs.existsSync is false
MissingFile == [exists |-> FALSE, toks |-> <<>>]

BatchProjects ==
  {[android |-> a, ios |-> <<PbxBasic>>] :
     a \in Disks(GradleBasic, AndroidContents \cup {MissingFile})}
  \cup {[android |-> <<GradleBasic>>, ios |-> i] :
          i \in Disks(PbxBasic, IOSContents \cup {MissingFile})}

\* the versionCode / currentProjectVersion arguments: skip, auto-increment, explicit
BatchBuildArgs == {JNull, JTrue, JStr(<<"7">>)}
\* the versionName / marketingVersion arguments
BatchVersionArgs == {JNull, JTrue, JStr(V200)}

\* the options object of a test: { changes: [], increment, dryRun, packageJsonPath }
InitBatch ==
  /\ \E prj \in BatchProjects, pkg \in PkgContents, dry \in BOOLEAN,
        inc \in {"undefined", "major"} :
       /\ androidDisk = prj.android
       /\ iosDisk = prj.ios
       /\ pkgDisk = pkg
       /\ disk0 = [android |-> prj.android, ios |-> prj.ios, pkg |-> pkg]
       /\ androidFiles = [i \in 1..Len(prj.android) |-> i]
       /\ iosFiles = [i \in 1..Len(prj.ios) |-> i]
       /\ options = InitOptions([android |-> FALSE, ios |-> FALSE, buildNumbers |-> FALSE,
                                 fields |-> NoFieldFlags],
                                [increment |-> inc], dry)
  /\ env = [argvIncrement |-> FALSE, interactive |-> FALSE]
  /\ platforms = <<>>
  /\ pc = "batch"
  /\ exitCode = -1
  /\ last = <<>>
  /\ arith = NoArith

\* the caller can go on: no call has thrown
NoneThrew == \A k \in 1..Len(last) : ~last[k].threw

\* the state a mutator call leaves: the files, the options object, the outcome
BatchReturn(c, w1) ==
  /\ androidDisk' = w1.android
  /\ iosDisk' = w1.ios
  /\ pkgDisk' = w1.pkg
  /\ options' = w1.options
  /\ last' = Append(last, Outcome(c, w1))
  /\ UNCHANGED <<disk0, androidFiles, iosFiles, platforms, pc, exitCode, env, arith>>

\* await updateAndroidVersions(files, versionCode, versionName, options)
CallUpdateAndroidVersions(versionCode, versionName) ==
  /\ pc = "batch"
  /\ NoneThrew
  /\ \A k \in 1..Len(last) : last[k].fn # "android"
  /\ BatchReturn(Call("android", versionCode, versionName),
                 updateAndroidVersions(World(androidDisk, iosDisk, pkgDisk, options),
                                       androidFiles, versionCode, versionName))

\* await updateIOSVersions(files, currentProjectVersion, marketingVersion, options)
CallUpdateIOSVersions(currentProjectVersion, marketingVersion) ==
  /\ pc = "batch"
  /\ NoneThrew
  /\ \A k \in 1..Len(last) : last[k].fn # "ios"
  /\ BatchReturn(Call("ios", currentProjectVersion, marketingVersion),
                 updateIOSVersions(World(androidDisk, iosDisk, pkgDisk, options),
                                   iosFiles, currentProjectVersion, marketingVersion))

\* await updatePackageJsonVersion(packageJsonPath, newVersion, options), the only
\* call of a test
CallUpdatePackageJsonVersion(newVersion) ==
  /\ pc = "batch"
  /\ last = <<>>
  /\ \E w1 \in {updatePackageJsonVersion(World(androidDisk, iosDisk, pkgDisk, options), newVersion)} :
       /\ pkgDisk' = w1.pkg
       /\ options' = w1.options
       /\ arith' = [fn |-> "updatePackageJsonVersion", newVersion |-> newVersion,
                    threw |-> w1.threw,
                    val |-> IF w1.threw THEN JUndef
                            ELSE updatePackageJsonVersionResult(pkgDisk, newVersion)]
  /\ pc' = "returned"
  /\ UNCHANGED <<androidDisk, iosDisk, disk0, androidFiles, iosFiles, platforms, exitCode,
                 env, last>>

NextBatch ==
  \/ \E versionCode \in BatchBuildArgs, versionName \in BatchVersionArgs :
       CallUpdateAndroidVersions(versionCode, versionName)
  \/ \E currentProjectVersion \in BatchBuildArgs, marketingVersion \in BatchVersionArgs :
       CallUpdateIOSVersions(currentProjectVersion, marketingVersion)
  \/ \E newVersion \in {JStr(V200), JStr(V100)} : CallUpdatePackageJsonVersion(newVersion)

SpecBatch == InitBatch /\ [][NextBatch]_vars

----------------------------------------------------------------------------
(* Failures inside a batch: C12, C13 *)

\* the paths of a list as a mutator call found them
PathsOf(fn) == 1..Len(Disk0Of(fn))

\* the paths a call returned a result for
ResultPaths(k) == {last[k].results[j].filePath : j \in 1..Len(last[k].results)}

\* the files of a list that can be updated: present, with both field patterns
ProcessablePaths(fn) == {p \in PathsOf(fn) : Recognized(fn, Disk0Of(fn)[p])}

\* the current semantic version of a file is not MAJOR.MINOR.PATCH
Unparsable(fn, file) ==
  /\ CarriesVersion(fn, file)
  /\ ~parseSemanticVersion(Captured(file.toks[FirstMatch(file.toks, VersionKey(fn))])).ok

\* a call returned normally with a result for every file that can be updated
ProcessedAll(k) ==
  /\ ~last[k].threw
  /\ ResultPaths(k) = ProcessablePaths(last[k].fn)
  /\ Len(last[k].results) = Cardinality(ProcessablePaths(last[k].fn))

\* the package manifest is absent or parses as JSON
ManifestReadable == disk0.pkg.exists => disk0.pkg.valid

\* C12 (as claimed): within one mutator batch a failure on one file (file
\* missing, a required field missing, or a current version that cannot be parsed
\* for auto-increment) never aborts the batch: the call returns normally and
\* every sibling file that can be updated has been processed.
C12_FailuresStayLocal ==
  ManifestReadable => \A k \in 1..Len(last) : ProcessedAll(k)

\* a missing file or a missing field is local to the file: when no file of the
\* batch has an unparsable version to auto-increment, the call returns normally
\* with every other file processed
C12_MissingStaysLocal ==
  ManifestReadable =>
    \A k \in 1..Len(last) :
      (last[k].version = JTrue =>
         \A p \in ProcessablePaths(last[k].fn) : ~Unparsable(last[k].fn, Disk0Of(last[k].fn)[p]))
        => ProcessedAll(k)


\* the files of a list that a mutator skips: absent, or lacking a field pattern
SkippedPaths(fn) == PathsOf(fn) \ ProcessablePaths(fn)

\* the change records against one file of a platform
FileRecords(fn, p) ==
  {c \in 1..Len(options.changes) :
     options.changes[c].platform = PlatformName(fn) /\ options.changes[c].file = p}

\* every call made so far was handed skipped files only
OnlySkippedSoFar == \A k \in 1..Len(last) : ProcessablePaths(last[k].fn) = {}

\* C13: a platform file that does not exist, or lacks either of its two field
\* patterns, is skipped as a whole by the mutator called on its list: its
\* content is as it was, the call returns no result for it, the change log has
\* no record against it, and a batch of such files alone leaves package.json
\* and its record alone; this holds whichever fields the call was asked to
\* update, the one the file does carry included.
C13_SkippedAsAWhole ==
  /\ \A k \in 1..Len(last) : \A p \in SkippedPaths(last[k].fn) :
       /\ DiskOf(last[k].fn)[p] = Disk0Of(last[k].fn)[p]
       /\ p \notin ResultPaths(k)
       /\ FileRecords(last[k].fn, p) = {}
  /\ (last # <<>> /\ OnlySkippedSoFar) =>
       /\ PackageRecords = {}
       /\ pkgDisk = disk0.pkg
       /\ ~options.packageJsonUpdated
       /\ options.changes = <<>>

\* a non-dry-run call asked for the build number alone, on a list whose only
\* file carries the build number but not the version, has returned
C13_Witness ==
  /\ ~options.dryRun
  /\ disk0.android = <<GradleNoName>>
  /\ disk0.pkg = Pkg(TRUE, TRUE, JStr(V100))
  /\ \E k \in CallsOf("android") :
       last[k].build = JTrue /\ last[k].version = JNull /\ ~last[k].threw

\* the same for a file that is not there, next to one that is updated
C13_MissingFileWitness ==
  /\ ~options.dryRun
  /\ disk0.ios = <<MissingFile, PbxBasic>>
  /\ \E k \in CallsOf("ios") :
       last[k].version = JTrue /\ ~last[k].threw /\ ResultPaths(k) = {2}

----------------------------------------------------------------------------
(* Run-level errors: C14, C15 *)

\* the selected mode updates a platform: executePlatformUpdates would call its mutator
ModeUpdates(fn) ==
  \E i \in 1..Len(PlatformCalls(platforms, options)) :
    PlatformCalls(platforms, options)[i].fn = fn

\* the selection is made and it needs a platform that has no resolved file
MissingPlatformFiles ==
  /\ pc # "SelectPlatforms"
  /\ \/ ModeUpdates("android") /\ androidFiles = <<>>
     \/ ModeUpdates("ios") /\ iosFiles = <<>>

\* no mutator has been called and every file is as it was
NothingTouched ==
  /\ last = <<>>
  /\ androidDisk = disk0.android
  /\ iosDisk = disk0.ios
  /\ pkgDisk = disk0.pkg
  /\ options.changes = <<>>

\* C14: when the selected update mode needs a platform for which no file was
\* resolved (Android without Android files, iOS without iOS files,
\* build-numbers-only with either missing) the run has ended with exit code 1
\* without calling a mutator, and no file is touched.
C14_NoFilesForPlatformIsFatal ==
  MissingPlatformFiles => (pc = "Exited" /\ exitCode = 1 /\ NothingTouched)

\* build-numbers-only was chosen in a project that has Android files only
C14_Witness ==
  /\ platforms = <<"build-numbers-only">>
  /\ androidFiles # <<>>
  /\ iosFiles = <<>>
  /\ pc = "Exited"
  /\ exitCode = 1


\* the command line carries --increment with a value other than major, minor, patch
InvalidIncrement ==
  env.argvIncrement /\ IncrementOrPatch(options.increment) \notin {"major", "minor", "patch"}

NothingWritten ==
  androidDisk = disk0.android /\ iosDisk = disk0.ios /\ pkgDisk = disk0.pkg

\* C15 (as claimed): a run whose increment type is not one of major, minor,
\* patch is fatal whichever update mode and explicit values accompany it: its
\* updates never complete (the run does not reach its report), and no file is
\* ever written.
C15_InvalidIncrementIsFatal ==
  InvalidIncrement => (~Completed /\ NothingWritten)

\* where the code does detect it: a run that auto-increments the semantic
\* version of the first file it processes ends with exit code 1, nothing written
C15_FatalWhenFirstVersionIncrements ==
  (/\ InvalidIncrement
   /\ last # <<>>
   /\ last[1].version = JTrue
   /\ disk0 = BasicDisk)
    => (pc = "Exited" /\ exitCode = 1 /\ NothingWritten)

----------------------------------------------------------------------------
(* detection.js: detectReactNativeProject *)

\* a package.json as JSON.parse leaves it: kind is "missing" (no such file),
\* "unparseable" (JSON.parse throws), "null" (the JSON text null) or "object";
\* the two dependency maps are the sets of the names they declare, each with a
\* version range
Manifest(kind, dependencies, devDependencies) ==
  [kind |-> kind, dependencies |-> dependencies, devDependencies |-> devDependencies]

Manifests ==
  {Manifest(k, {}, {}) : k \in {"missing", "unparseable", "null", "object"}}
  \cup {Manifest("object", {"express"}, {}),
        Manifest("object", {"react-native"}, {}),
        Manifest("object", {}, {"@react-native-community/cli"}),
        Manifest("object", {"express"}, {"react-native-cli"})}

\* a directory: its package.json and whether android/ and ios/ exist in it
Directory(manifest, android, ios) == [manifest |-> manifest, android |-> android, ios |-> ios]

Directories == {Directory(m, a, i) : m \in Manifests, a \in BOOLEAN, i \in BOOLEAN}

\* the directories from startDir upward, the filesystem root excluded; startDir
\* is directory 1 and the root is directory Len + 1. For a relative startDir the
\* last directory is '.', and path.parse(startDir).root is the empty string
Ancestries == UNION {[1..n -> Directories] : n \in 0..MaxDepth}

reactNativePackages == {"react-native", "@react-native-community/cli", "react-native-cli"}

\* variant: only dependencies is looked at
hasReactNativeDependencies_DependenciesOnly(packageJson) ==
  \E pkg \in reactNativePackages : pkg \in packageJson.dependencies

\* { ...packageJson.dependencies, ...packageJson.devDependencies } has a truthy
\* entry for one of reactNativePackages
hasReactNativeDependencies(packageJson) ==
  \E pkg \in reactNativePackages :
    pkg \in (packageJson.dependencies \cup packageJson.devDependencies)

\* the body of the try block of one iteration: "return" when the directory is
\* returned, "throw" when JSON.parse or the property access on null throws,
\* "fall" when the block ends without returning
TryDirectory(dir) ==
  IF dir.manifest.kind \in {"unparseable", "null"} THEN "throw"
  ELSE IF hasReactNativeDependencies(dir.manifest) /\ (dir.android \/ dir.ios) THEN "return"
  ELSE "fall"

\* one iteration of the while loop on directory currentDir
IterationReturns(dirs, currentDir) ==
  /\ dirs[currentDir].manifest.kind # "missing"
  /\ TryDirectory(dirs[currentDir]) = "return"

\* path.dirname(currentDir): the parent, and '.' for '.'
dirname(dirs, relative, currentDir) ==
  IF relative /\ currentDir = Len(dirs) THEN currentDir ELSE currentDir + 1

\* the iterations of the loop that are followed
MaxIterations == MaxDepth + 2

InitDetect ==
  /\ \E dirs \in Ancestries, relative \in BOOLEAN : env = [dirs |-> dirs, relative |-> relative]
  /\ arith = [fn |-> "detectReactNativeProject", currentDir |-> 1, returned |-> FALSE,
              val |-> 0, iterations |-> 0]
  /\ androidDisk = <<>>
  /\ iosDisk = <<>>
  /\ pkgDisk = Pkg(FALSE, FALSE, JUndef)
  /\ disk0 = [android |-> <<>>, ios |-> <<>>, pkg |-> Pkg(FALSE, FALSE, JUndef)]
  /\ androidFiles = <<>>
  /\ iosFiles = <<>>
  /\ options = [changes |-> <<>>]
  /\ platforms = <<>>
  /\ pc = "detect"
  /\ exitCode = -1
  /\ last = <<>>

DetectFrame ==
  UNCHANGED <<androidDisk, iosDisk, pkgDisk, disk0, androidFiles, iosFiles, options,
              platforms, pc, exitCode, env, last>>

\* detection.js:27-50: the loop body while currentDir !== root
ExamineDirectory ==
  /\ arith.fn = "detectReactNativeProject"
  /\ ~arith.returned
  /\ arith.currentDir # Len(env.dirs) + 1
  /\ arith.iterations < MaxIterations
  /\ arith' = IF IterationReturns(env.dirs, arith.currentDir)
              THEN [arith EXCEPT !.returned = TRUE, !.val = arith.currentDir,
                                 !.iterations = @ + 1]
              ELSE [arith EXCEPT !.currentDir = dirname(env.dirs, env.relative, @),
                                 !.iterations = @ + 1]
  /\ DetectFrame

\* detection.js:52: currentDir is the root, return null (0)
ReturnNull ==
  /\ arith.fn = "detectReactNativeProject"
  /\ ~arith.returned
  /\ arith.currentDir = Len(env.dirs) + 1
  /\ arith' = [arith EXCEPT !.returned = TRUE, !.val = 0]
  /\ DetectFrame

NextDetect == ExamineDirectory \/ ReturnNull

SpecDetect == InitDetect /\ [][NextDetect]_vars

\* a directory that is a React Native project root: its manifest parses to an
\* object declaring an allow-listed package and a platform directory is beside it
Qualifies(dir) ==
  /\ dir.manifest.kind = "object"
  /\ \/ dir.manifest.dependencies \cap reactNativePackages # {}
     \/ dir.manifest.devDependencies \cap reactNativePackages # {}
  /\ dir.android \/ dir.ios

QualifyingDirs == {d \in 1..Len(env.dirs) : Qualifies(env.dirs[d])}

\* C16: detectReactNativeProject returns the nearest directory, from startDir
\* upward, whose manifest parses, declares an allow-listed dependency (in
\* dependencies or devDependencies) and has android/ or ios/ beside it;
\* directories with a missing, unparseable or non-qualifying manifest are passed
\* over, and the result is null when no directory below the root qualifies.
C16_NearestQualifyingDirectory ==
  /\ arith.returned =>
       /\ QualifyingDirs = {} => arith.val = 0
       /\ QualifyingDirs # {} =>
            /\ arith.val \in QualifyingDirs
            /\ \A d \in QualifyingDirs : arith.val <= d
  /\ ~arith.returned => \A d \in 1..(arith.currentDir - 1) : ~Qualifies(env.dirs[d])

\* the walk passed over an unparseable manifest and returned the directory above
\* it, recognised by a devDependencies entry
C16_Witness ==
  /\ arith.returned
  /\ arith.val = 2
  /\ env.dirs[1].manifest.kind = "unparseable"
  /\ env.dirs[2].manifest.devDependencies # {}

----------------------------------------------------------------------------
(* detection.js: loadProjectConfiguration *)

\* a platform section of a configuration: absent (defined = FALSE) or an object
\* whose files key is a list, named here by its first entry, or "undefined"
Section(defined, files) == [defined |-> defined, plain |-> TRUE, files |-> files]
\* a value of a top-level key that is no plain object: an array or a scalar,
\* named by its text
Whole(text) == [defined |-> TRUE, plain |-> FALSE, files |-> text]
NoSection == Section(FALSE, "undefined")

\* a configuration object; packageJson is a path or "undefined"
Config(android, ios, packageJson) == [android |-> android, ios |-> ios, packageJson |-> packageJson]

DEFAULT_CONFIG ==
  Config(Section(TRUE, "android/app/build.gradle"),
         Section(TRUE, "ios/*.xcodeproj/project.pbxproj"), "package.json")

\* a candidate file: kind is "missing" (existsSync is false), "throws" (import or
\* JSON.parse throws), "string", "array" (what it loads is no plain object) or
\* "object"; config is what it loads, its keys undefined unless it is an object
ConfigFile(kind, config) == [kind |-> kind, config |-> config]

EmptyConfig == Config(NoSection, NoSection, "undefined")

ConfigFiles ==
  {ConfigFile(k, EmptyConfig) : k \in {"missing", "throws", "string", "array", "object"}}
  \cup {ConfigFile("object", Config(Section(TRUE, "primary.gradle"), NoSection, "undefined")),
        ConfigFile("object", Config(NoSection, Section(TRUE, "undefined"), "json-package.json")),
        ConfigFile("object", Config(Whole("[custom.gradle]"), Section(TRUE, "ios/App.xcodeproj/project.pbxproj"), "undefined"))}

\* the value loadConfigFromPath returns: null is ok = FALSE
Loaded(ok, config) == [ok |-> ok, config |-> config]

\* variant: an array passes the validation
loadConfigFromPath_AcceptsArrays(file) ==
  IF file.kind \in {"missing", "throws", "string"} THEN Loaded(FALSE, EmptyConfig)
  ELSE Loaded(TRUE, file.config)

\* variant: a load error is not caught per candidate; the outer catch ends the
\* search with the defaults
loadConfigFromPath_ErrorEndsSearch(file) ==
  IF file.kind = "missing" THEN Loaded(FALSE, EmptyConfig)
  ELSE IF file.kind = "throws" THEN Loaded(TRUE, EmptyConfig)
  ELSE IF file.kind \in {"string", "array"} THEN Loaded(FALSE, EmptyConfig)
  ELSE Loaded(TRUE, file.config)

loadConfigFromPath(file) ==
  IF file.kind = "missing" THEN Loaded(FALSE, EmptyConfig)
  ELSE IF file.kind = "throws" THEN Loaded(FALSE, EmptyConfig)
  ELSE IF file.kind \in {"string", "array"} THEN Loaded(FALSE, EmptyConfig)
  ELSE Loaded(TRUE, file.config)

\* variant: result[key] = userConfig[key] for every key the user sets, as
\* { ...DEFAULT_CONFIG, ...config } does
mergeSection_Shallow(defaultSection, userSection) ==
  IF userSection.defined THEN userSection ELSE defaultSection

\* detection.js:171-181: { ...defaultConfig[key], ...userConfig[key] } for an
\* object, userConfig[key] for another defined value, else the default's copy
mergeSection(defaultSection, userSection) ==
  IF userSection.defined /\ userSection.plain
  THEN Section(TRUE, IF userSection.files # "undefined" THEN userSection.files
                     ELSE defaultSection.files)
  ELSE IF userSection.defined THEN userSection
  ELSE defaultSection

mergeConfigs(defaultConfig, userConfig) ==
  Config(mergeSection(defaultConfig.android, userConfig.android),
         mergeSection(defaultConfig.ios, userConfig.ios),
         IF userConfig.packageJson # "undefined" THEN userConfig.packageJson
         ELSE defaultConfig.packageJson)

getDefaultConfig ==
  Config(Section(TRUE, DEFAULT_CONFIG.android.files), Section(TRUE, DEFAULT_CONFIG.ios.files),
         DEFAULT_CONFIG.packageJson)

\* candidate 0 is customConfigPath; 1 .. 4 are vbump.config.js, vbump.config.json,
\* .vbump.config.js, .vbump.config.json in projectRoot; 5 is past the last
InitConfig ==
  /\ \E custom \in BOOLEAN, files \in [0..4 -> ConfigFiles] :
       /\ env = [customConfigPath |-> custom, files |-> files]
       /\ arith = [fn |-> "loadProjectConfiguration",
                   candidate |-> IF custom THEN 0 ELSE 1,
                   returned |-> FALSE, val |-> EmptyConfig]
       /\ ~custom => files[0] = ConfigFile("missing", EmptyConfig)
  /\ androidDisk = <<>>
  /\ iosDisk = <<>>
  /\ pkgDisk = Pkg(FALSE, FALSE, JUndef)
  /\ disk0 = [android |-> <<>>, ios |-> <<>>, pkg |-> Pkg(FALSE, FALSE, JUndef)]
  /\ androidFiles = <<>>
  /\ iosFiles = <<>>
  /\ options = [changes |-> <<>>]
  /\ platforms = <<>>
  /\ pc = "config"
  /\ exitCode = -1
  /\ last = <<>>

\* what a candidate leaves: the merged configuration returned, or the next candidate
AfterCandidate(config) ==
  arith' = IF config.ok
           THEN [arith EXCEPT !.returned = TRUE,
                              !.val = mergeConfigs(DEFAULT_CONFIG, config.config)]
           ELSE [arith EXCEPT !.candidate = @ + 1]

\* detection.js:82-87
TryCustomPath ==
  /\ arith.fn = "loadProjectConfiguration"
  /\ ~arith.returned
  /\ arith.candidate = 0
  /\ AfterCandidate(loadConfigFromPath(env.files[0]))
  /\ DetectFrame

\* detection.js:97-103, one iteration
TryConfigFile ==
  /\ arith.fn = "loadProjectConfiguration"
  /\ ~arith.returned
  /\ arith.candidate \in 1..4
  /\ AfterCandidate(loadConfigFromPath(env.files[arith.candidate]))
  /\ DetectFrame

\* detection.js:105
ReturnDefaults ==
  /\ arith.fn = "loadProjectConfiguration"
  /\ ~arith.returned
  /\ arith.candidate = 5
  /\ arith' = [arith EXCEPT !.returned = TRUE, !.val = getDefaultConfig]
  /\ DetectFrame

NextConfig == TryCustomPath \/ TryConfigFile \/ ReturnDefaults

SpecConfig == InitConfig /\ [][NextConfig]_vars

\* the candidates that exist, load and are plain objects
ValidCandidates ==
  {c \in 0..4 : (c = 0 => env.customConfigPath) /\ env.files[c].kind = "object"}

FirstValid == CHOOSE c \in ValidCandidates : \A d \in ValidCandidates : c <= d

\* the defaults with the keys that a configuration sets taken from it
Overlaid(user) ==
  [android |-> IF user.android.defined /\ ~user.android.plain THEN user.android
               ELSE Section(TRUE, IF user.android.defined /\ user.android.files # "undefined"
                                  THEN user.android.files ELSE "android/app/build.gradle"),
   ios |-> IF user.ios.defined /\ ~user.ios.plain THEN user.ios
           ELSE Section(TRUE, IF user.ios.defined /\ user.ios.files # "undefined"
                              THEN user.ios.files ELSE "ios/*.xcodeproj/project.pbxproj"),
   packageJson |-> IF user.packageJson # "undefined" THEN user.packageJson
                   ELSE "package.json"]

\* C17: loadProjectConfiguration tries the explicit path (when given), then
\* vbump.config.js, vbump.config.json, .vbump.config.js, .vbump.config.json in
\* that order, and returns the defaults merged with the first candidate that
\* exists, loads and is a plain object (the defaults when there is none); a
\* later candidate never overrides an earlier valid one.
C17_FirstValidCandidateWins ==
  arith.returned =>
    arith.val = IF ValidCandidates = {} THEN Overlaid(EmptyConfig)
                ELSE Overlaid(env.files[FirstValid].config)

\* vbump.config.js does not load, vbump.config.json is a valid empty object and
\* .vbump.config.json sets android.files: the defaults are returned
C17_Witness ==
  /\ arith.returned
  /\ ~env.customConfigPath
  /\ env.files[1].kind = "throws"
  /\ env.files[2] = ConfigFile("object", EmptyConfig)
  /\ env.files[4].config.android.defined
  /\ arith.val = Overlaid(EmptyConfig)

----------------------------------------------------------------------------
(* updatePackageJsonVersion called on its own: C18 *)

PackageCall == arith.fn = "updatePackageJsonVersion"

\* the manifest is missing or has no version field
NoVersionToUpdate == ~disk0.pkg.exists \/ ~Truthy(disk0.pkg.version)

\* null returned, nothing written, nothing recorded
ReturnedNullUntouched ==
  /\ ~arith.threw
  /\ arith.val = JNull
  /\ pkgDisk = disk0.pkg
  /\ options.changes = <<>>

\* the new version returned, one record, the other keys kept
ReturnedNewVersion ==
  /\ ~arith.threw
  /\ arith.val = arith.newVersion
  /\ pkgDisk.others = disk0.pkg.others
  /\ pkgDisk.exists /\ pkgDisk.valid
  /\ pkgDisk.version = IF options.dryRun THEN disk0.pkg.version ELSE arith.newVersion
  /\ options.changes =
       <<Change("Package.json", 0, "version", disk0.pkg.version, arith.newVersion)>>

----------------------------------------------------------------------------
(* Confirmation before writing: C19 *)

AtPrompt == pc \in {"SelectPlatforms", "SelectIncrement", "Confirm"}

\* a step that writes a platform file or package.json
WritesAFile == androidDisk' # androidDisk \/ iosDisk' # iosDisk \/ pkgDisk' # pkgDisk

\* a step that ends the run where a prompt is answered or interrupted
EndsAtPrompt == AtPrompt /\ pc' = "Exited"

ConfirmationStep ==
  /\ WritesAFile => pc = "Mutate"
  /\ (pc' = "Mutate" /\ pc # "Mutate") => pc = "Confirm"
  /\ EndsAtPrompt => (androidDisk' = disk0.android /\ iosDisk' = disk0.ios
                      /\ pkgDisk' = disk0.pkg /\ last' = <<>>)
  /\ (EndsAtPrompt /\ pc # "SelectPlatforms") => exitCode' = 0
  /\ (EndsAtPrompt /\ pc = "SelectPlatforms" /\ exitCode' # 0) =>
       (PlatformsFromFlags(options) # <<>> \/ platforms' # <<>>)
  /\ (pc = "Confirm" /\ options.dryRun) => pc' = "Mutate"

\* C19: no platform file and no package.json is written before the confirmation
\* step has let the run through (in an interactive non-dry-run run: the user's
\* positive answer), so every file is as it was while the run is at a prompt; a
\* negative answer or an interrupt at a prompt ends the run with exit code 0 and
\* every file unchanged; in dry-run mode the confirmation step never ends the run.
C19_ConfirmBeforeWrite ==
  /\ [](AtPrompt => NothingTouched)
  /\ [][ConfirmationStep]_vars

\* the user declined at the confirmation prompt of an interactive non-dry-run
\* run started with platform and increment flags: exit code 0, nothing touched
C19_Witness ==
  /\ env.interactive
  /\ ~options.dryRun
  /\ env.argvIncrement
  /\ platforms = PlatformsFromFlags(options)
  /\ platforms # <<>>
  /\ ~MissingPlatformFiles
  /\ pc = "Exited"
  /\ exitCode = 0
  /\ NothingTouched

----------------------------------------------------------------------------
(* Parsing and formatting a semantic version: C20 *)

ParseCall == arith.fn = "parseSemanticVersion"

\* the positions of the dots of a text
DotsOf(s) == {i \in 1..Len(s) : s[i] = "."}

\* the shape major.minor.patch: two dots, digits elsewhere, no empty number
HasVersionShape(s) ==
  /\ Cardinality(DotsOf(s)) = 2
  /\ \A i \in 1..Len(s) : i \in DotsOf(s) \/ IsDigit(s[i])
  /\ Len(s) > 0 /\ 1 \notin DotsOf(s) /\ Len(s) \notin DotsOf(s)
  /\ \A i \in DotsOf(s) : i + 1 \notin DotsOf(s)

\* every number of a text is written without a leading zero, 0 itself excepted:
\* a 0 that starts a number also ends it
PlainNumbers(s) ==
  \A i \in 1..Len(s) :
    (s[i] = "0" /\ (i = 1 \/ i - 1 \in DotsOf(s))) => (i = Len(s) \/ i + 1 \in DotsOf(s))

\* a rejected string is named by the error thrown
ErrorNamesInput ==
  /\ parseSemanticVersion(arith.version).err = "Invalid version format"
  /\ parseSemanticVersion(arith.version).input = arith.version

\* C20 (as claimed): every string accepted by parseSemanticVersion is
\* reconstructed exactly by formatting the parsed triple as major.minor.patch,
\* and every string of any other shape is rejected with an error naming it.
C20_AsClaimed ==
  ParseCall =>
    /\ arith.ok <=> HasVersionShape(arith.version)
    /\ arith.ok => arith.val = JStr(arith.version)
    /\ ~arith.ok => ErrorNamesInput

\* C20 (amended): parseSemanticVersion accepts exactly the strings of the shape
\* digits.digits.digits and rejects every other with an error naming the input;
\* formatting the parsed triple reconstructs an accepted string exactly when
\* its three numbers are written without leading zeros, and otherwise yields
\* the same version with the leading zeros dropped, which parses to the same
\* triple.
C20_RoundTripWithoutLeadingZeros ==
  ParseCall =>
    /\ arith.ok <=> HasVersionShape(arith.version)
    /\ arith.ok =>
         /\ PlainNumbers(arith.version) <=> arith.val = JStr(arith.version)
         /\ HasVersionShape(arith.val.s) /\ PlainNumbers(arith.val.s)
         /\ parseSemanticVersion(arith.val.s).major = parseSemanticVersion(arith.version).major
         /\ parseSemanticVersion(arith.val.s).minor = parseSemanticVersion(arith.version).minor
         /\ parseSemanticVersion(arith.val.s).patch = parseSemanticVersion(arith.version).patch
    /\ ~arith.ok => ErrorNamesInput

\* 9.9.9 was parsed and formatted back to 9.9.9
C20_Witness ==
  ParseCall /\ arith.version = V999 /\ arith.ok /\ arith.val = JStr(V999)

\* 01.02.03 was parsed and formatted to 1.2.3
C20_LeadingZerosWitness ==
  ParseCall /\ arith.version = V010203 /\ arith.ok
  /\ arith.val = JStr(<<"1", ".", "2", ".", "3">>)

----------------------------------------------------------------------------
(* Values are computed before a file is written: C21 *)

\* the calls of the two platform mutators
MutatorCalls == CallsOf("android") \cup {k \in 1..Len(last) : last[k].fn = "ios"}

\* computing the new semantic version of a file fails in call k: it is to be
\* auto-incremented and the current text does not parse or the type is invalid
ComputeFails(k, p) ==
  /\ last[k].version = JTrue
  /\ \/ Unparsable(last[k].fn, Disk0Of(last[k].fn)[p])
     \/ IncrementOrPatch(options.increment) \notin {"major", "minor", "patch"}

\* C21: a mutator writes a file only after all of its new values are computed:
\* a file for which computing a new value fails has its on-disk content
\* unchanged and no change record, and the call returns no result for it.
C21_ComputedBeforeWritten ==
  \A k \in MutatorCalls : \A p \in ProcessablePaths(last[k].fn) :
    ComputeFails(k, p) =>
      /\ DiskOf(last[k].fn)[p] = Disk0Of(last[k].fn)[p]
      /\ FileRecords(last[k].fn, p) = {}
      /\ p \notin ResultPaths(k)

\* a non-dry-run call asked to auto-increment both fields of a build.gradle at
\* versionCode 1 / versionName beta, after one that it has written, has thrown
C21_Witness ==
  /\ ~options.dryRun
  /\ disk0.android = <<GradleBasic, GradleBeta>>
  /\ androidDisk[1] # GradleBasic
  /\ \E k \in CallsOf("android") :
       last[k].build = JTrue /\ last[k].version = JTrue /\ last[k].threw

----------------------------------------------------------------------------
(* files.js: resolveFilePaths, and updateIOSVersions on the list it returns *)

\* an entry of the ios directory: its name is base followed by ext, so that
\* name.endsWith(suffix) is ext = suffix; inside are the files named in holds
Child(base, ext, isDirectory, holds) == [base |-> base, ext |-> ext, isDirectory |-> isDirectory, holds |-> holds]

ChildBases == <<"App", "Ext", "Kit">>
Rests == <<"project.pbxproj", "contents.xcworkspacedata">>

ChildrenAt(i) ==
  {Child(ChildBases[i], e, d, h) :
     e \in {".xcodeproj", ".xcworkspace"}, d \in {TRUE},
     h \in {{}, {"project.pbxproj"}, {"project.pbxproj", "contents.xcworkspacedata"}}}
  \cup {Child(ChildBases[i], e, FALSE, {}) : e \in {".xcodeproj", ".xcworkspace"}}

\* what readdirSync(ios) lists, in its order
Listings == UNION {{l \in [1..n -> UNION {ChildrenAt(i) : i \in 1..n}] : \A i \in 1..n : l[i] \in ChildrenAt(i)} : n \in 0..MaxChildren}

\* a pattern of ios.files: 'ios/*<suffix>/<rest>' when glob, else 'ios/<base><suffix>/<rest>'
Pattern(glob, base, suffix, rest) == [glob |-> glob, base |-> base, suffix |-> suffix, rest |-> rest]

Patterns ==
  {Pattern(TRUE, "", ".xcodeproj", "project.pbxproj"),
   Pattern(TRUE, "", ".xcodeproj", "contents.xcworkspacedata"),
   Pattern(TRUE, "", ".xcworkspace", "contents.xcworkspacedata"),
   Pattern(FALSE, "App", ".xcodeproj", "project.pbxproj")}

PatternLists == UNION {[1..n -> Patterns] : n \in 0..MaxPatterns}

\* the path ios/<child c>/<rest> as an index of the files on disk
PathIndex(c, rest) == 2 * (c - 1) + (IF rest = Rests[1] THEN 1 ELSE 2)
ChildOf(path) == (path + 1) \div 2
RestOf(path) == Rests[2 - (path % 2)]

\* fs.existsSync of the path
PathExists(children, path) ==
  /\ ChildOf(path) \in 1..Len(children)
  /\ children[ChildOf(path)].isDirectory
  /\ RestOf(path) \in children[ChildOf(path)].holds

RECURSIVE xcodeprojPaths(_, _)
\* files.js:65-77: the entries that are directories ending in .xcodeproj, and of
\* these the ones holding project.pbxproj, from entry c on
xcodeprojPaths(children, c) ==
  IF c > Len(children) THEN <<>>
  ELSE (IF children[c].isDirectory /\ children[c].ext = ".xcodeproj"
           /\ PathExists(children, PathIndex(c, "project.pbxproj"))
        THEN <<PathIndex(c, "project.pbxproj")>> ELSE <<>>)
       \o xcodeprojPaths(children, c + 1)

\* pattern.includes('*.xcodeproj'); the directory ios exists when it has a listing
resolveGlobPattern(pattern, iosExists, children) ==
  IF pattern.suffix = ".xcodeproj"
  THEN IF ~iosExists THEN <<>> ELSE xcodeprojPaths(children, 1)
  ELSE <<>>

\* the entry of the listing that a direct pattern names, 0 when there is none
NamedChild(pattern, children) ==
  IF \E c \in 1..Len(children) : children[c].base = pattern.base /\ children[c].ext = pattern.suffix
  THEN CHOOSE c \in 1..Len(children) : children[c].base = pattern.base /\ children[c].ext = pattern.suffix
  ELSE 0

resolveDirectPath(pattern, iosExists, named, children) ==
  IF iosExists /\ named # 0 /\ PathExists(children, PathIndex(named, pattern.rest))
  THEN <<PathIndex(named, pattern.rest)>>
  ELSE <<>>

resolveFilePattern(pattern, iosExists, children) ==
  IF pattern.glob THEN resolveGlobPattern(pattern, iosExists, children)
  ELSE resolveDirectPath(pattern, iosExists, NamedChild(pattern, children), children)

RECURSIVE resolveFilePaths(_, _, _)
resolveFilePaths(patterns, iosExists, children) ==
  IF patterns = <<>> THEN <<>>
  ELSE resolveFilePattern(Head(patterns), iosExists, children)
       \o resolveFilePaths(Tail(patterns), iosExists, children)

\* the content of the file at a path: a project file for project.pbxproj
ContentAt(children, path) ==
  IF ~PathExists(children, path) THEN MissingFile
  ELSE IF RestOf(path) = "project.pbxproj" THEN PbxBasic ELSE File(<<>>)

InitResolve ==
  /\ \E iosExists \in BOOLEAN, children \in Listings, patterns \in PatternLists, dry \in BOOLEAN :
       /\ ~iosExists => children = <<>>
       /\ env = [argvIncrement |-> FALSE, interactive |-> FALSE, iosExists |-> iosExists,
                 children |-> children, patterns |-> patterns]
       /\ iosDisk = [path \in 1..(2 * Len(children)) |-> ContentAt(children, path)]
       /\ disk0 = [android |-> <<>>, pkg |-> Pkg(TRUE, TRUE, JStr(V100)),
                   ios |-> [path \in 1..(2 * Len(children)) |-> ContentAt(children, path)]]
       /\ options = InitOptions([android |-> FALSE, ios |-> TRUE, buildNumbers |-> FALSE,
                                 fields |-> NoFieldFlags],
                                [increment |-> "undefined"], dry)
  /\ androidDisk = <<>>
  /\ pkgDisk = Pkg(TRUE, TRUE, JStr(V100))
  /\ androidFiles = <<>>
  /\ iosFiles = <<>>
  /\ platforms = <<>>
  /\ pc = "resolve"
  /\ exitCode = -1
  /\ last = <<>>
  /\ arith = NoArith

\* index.js:71: iosFiles = resolveFilePaths(config.ios.files, projectRoot)
ResolveIOSFiles ==
  /\ pc = "resolve"
  /\ iosFiles' = resolveFilePaths(env.patterns, env.iosExists, env.children)
  /\ pc' = "resolved"
  /\ UNCHANGED <<androidDisk, iosDisk, pkgDisk, disk0, androidFiles, options, platforms,
                 exitCode, env, last, arith>>

\* index.js:282-299: updateIOSVersions on the resolved files, full or build number only
UpdateResolved(currentProjectVersion, marketingVersion) ==
  /\ pc = "resolved"
  /\ iosFiles # <<>>
  /\ \E w1 \in {updateIOSVersions(World(androidDisk, iosDisk, pkgDisk, options), iosFiles,
                                  currentProjectVersion, marketingVersion)} :
       /\ iosDisk' = w1.ios
       /\ pkgDisk' = w1.pkg
       /\ options' = w1.options
       /\ last' = Append(last, Outcome(Call("ios", currentProjectVersion, marketingVersion), w1))
  /\ pc' = "updated"
  /\ UNCHANGED <<androidDisk, disk0, androidFiles, iosFiles, platforms, exitCode, env, arith>>

NextResolve ==
  \/ ResolveIOSFiles
  \/ \E marketingVersion \in {JTrue, JNull} : UpdateResolved(JTrue, marketingVersion)

SpecResolve == InitResolve /\ [][NextResolve]_vars

----------------------------------------------------------------------------
(* Each file once: C22 *)

\* how often a path occurs in the resolved list
Occurrences(path) == Cardinality({i \in 1..Len(iosFiles) : iosFiles[i] = path})

ResolvedPaths == {iosFiles[i] : i \in 1..Len(iosFiles)}

\* the build number of a processed file is the one it had, plus one
BumpedOnce(path) ==
  Recognized("ios", disk0.ios[path]) =>
    ParsedBuild("ios", iosDisk[path]) =
      JNum(ParseIntText(Original("ios", path, "CURRENT_PROJECT_VERSION")).n + 1)

\* C22 (as claimed): in one invocation each platform file is read and written
\* at most once, for every configuration, lists in which a wildcard pattern and
\* an explicit path resolve to the same file included: no path occurs twice in
\* the resolved list, and after a real run that auto-increments the build number
\* every processed file holds its former build number plus one.
C22_EachFileOnce ==
  /\ \A path \in ResolvedPaths : Occurrences(path) <= 1
  /\ (pc = "updated" /\ ~options.dryRun) => \A path \in ResolvedPaths : BumpedOnce(path)

\* when the patterns resolve to distinct paths each file is bumped once
C22_OnceWhenPathsDistinct ==
  (pc = "updated" /\ ~options.dryRun /\ \A path \in ResolvedPaths : Occurrences(path) <= 1)
    => \A path \in ResolvedPaths : BumpedOnce(path)

----------------------------------------------------------------------------
(* Configuration loading never raises: C23 *)

\* the configuration equals the defaults
IsDefaultConfig(config) ==
  /\ config.android = Section(TRUE, "android/app/build.gradle")
  /\ config.ios = Section(TRUE, "ios/*.xcodeproj/project.pbxproj")
  /\ config.packageJson = "package.json"

\* a candidate that is tried and does not succeed
FailsToLoad(c) == env.files[c].kind \in {"missing", "throws", "string", "array"}

\* the candidates tried before candidate c
TriedBefore(c) == {d \in 0..(c - 1) : d = 0 => env.customConfigPath}

\* C23: loadProjectConfiguration never raises: a candidate that is missing,
\* fails to load or parse, or is not a plain object is passed over and the next
\* one is tried (the walk never stops at such a candidate and always ends by
\* returning), and when no candidate succeeds the result is the default
\* configuration.
C23_NeverRaises ==
  /\ arith.fn = "loadProjectConfiguration"
  /\ \A d \in TriedBefore(arith.candidate) : FailsToLoad(d)
  /\ arith.returned => (arith.candidate \in 0..5 /\ (arith.candidate = 5 => IsDefaultConfig(arith.val)))
  /\ (arith.returned /\ arith.candidate < 5) => ~FailsToLoad(arith.candidate)
  /\ ~arith.returned => ENABLED NextConfig

\* every candidate failed, one by throwing and one by loading an array, and the
\* defaults were returned
C23_Witness ==
  /\ arith.returned
  /\ arith.candidate = 5
  /\ env.customConfigPath
  /\ env.files[0].kind = "throws"
  /\ env.files[1].kind = "array"
  /\ env.files[2].kind = "string"
  /\ IsDefaultConfig(arith.val)

----------------------------------------------------------------------------
(* Merging a user configuration over the defaults: C24 *)

\* a configuration was loaded and merged: the one of the first valid candidate
Merged == arith.fn = "loadProjectConfiguration" /\ arith.returned /\ ValidCandidates # {}

UserConfig == env.files[FirstValid].config

\* one platform key of the result, against the user's and the default's value
MergedKey(result, user, defaultFiles) ==
  /\ (user.defined /\ user.plain /\ user.files # "undefined") =>
       (result.plain /\ result.files = user.files)
  /\ (user.defined /\ user.plain /\ user.files = "undefined") =>
       (result.plain /\ result.files = defaultFiles)
  /\ (user.defined /\ ~user.plain) => result = user
  /\ ~user.defined => (result.plain /\ result.files = defaultFiles)

\* C24: in the configuration returned after merging a user config over the
\* defaults, for each top-level key a plain-object user value is merged key by
\* key over the default's value, an array or scalar user value replaces the
\* default wholesale, and a key the user omits keeps its default.
C24_MergePerKey ==
  Merged =>
    /\ MergedKey(arith.val.android, UserConfig.android, "android/app/build.gradle")
    /\ MergedKey(arith.val.ios, UserConfig.ios, "ios/*.xcodeproj/project.pbxproj")
    /\ arith.val.packageJson = IF UserConfig.packageJson = "undefined" THEN "package.json"
                               ELSE UserConfig.packageJson

\* the user config sets ios to an object without files and packageJson, and
\* omits android: the default files of both platforms are in the result
C24_Witness ==
  /\ Merged
  /\ UserConfig = Config(NoSection, Section(TRUE, "undefined"), "json-package.json")
  /\ arith.val.android.files = "android/app/build.gradle"
  /\ arith.val.ios.files = "ios/*.xcodeproj/project.pbxproj"
  /\ arith.val.packageJson = "json-package.json"

----------------------------------------------------------------------------
(* Wildcard patterns: C25 *)

\* the list was resolved from one wildcard pattern
ResolvedOneGlob == pc # "resolve" /\ Len(env.patterns) = 1 /\ env.patterns[1].glob

\* the existing paths ios/<child>/<rest> of the child directories of ios whose
\* name ends with the suffix of the pattern, <rest> being the one of the pattern
GlobMatches(pattern) ==
  {PathIndex(c, pattern.rest) : c \in {d \in 1..Len(env.children) :
      /\ env.children[d].isDirectory
      /\ env.children[d].ext = pattern.suffix
      /\ PathExists(env.children, PathIndex(d, pattern.rest))}}

\* C25 (as claimed): for a wildcard pattern dir/*<suffix>/<rest> the resolver
\* returns exactly the existing paths dir/<child>/<rest> of the immediate child
\* directories of dir whose name ends with the suffix, <rest> being the
\* remainder written in the pattern; every returned path exists.
C25_GlobAsWritten ==
  ResolvedOneGlob =>
    /\ ResolvedPaths = GlobMatches(env.patterns[1])
    /\ \A path \in ResolvedPaths : PathExists(env.children, path)

\* for the pattern ios/*.xcodeproj/project.pbxproj the resolver returns exactly
\* the matches, each once and in the order of the listing
C25_StandardPattern ==
  (ResolvedOneGlob /\ env.patterns[1] = Pattern(TRUE, "", ".xcodeproj", "project.pbxproj")) =>
    /\ ResolvedPaths = GlobMatches(env.patterns[1])
    /\ \A path \in ResolvedPaths : PathExists(env.children, path) /\ Occurrences(path) = 1
    /\ \A i, j \in 1..Len(iosFiles) : i < j => iosFiles[i] < iosFiles[j]

\* a workspace that holds contents.xcworkspacedata, asked for by
\* ios/*.xcworkspace/contents.xcworkspacedata, is not returned
C25_WorkspaceDropped ==
  /\ ResolvedOneGlob
  /\ env.patterns[1] = Pattern(TRUE, "", ".xcworkspace", "contents.xcworkspacedata")
  /\ GlobMatches(env.patterns[1]) # {}
  /\ iosFiles = <<>>

----------------------------------------------------------------------------
(* The whole run of executeVersionBump, from the project detection on *)

EmptyProject == [android |-> <<>>, ios |-> <<>>]

\* as Init, before the project is located: located is whether options.projectPath
\* or detectReactNativeProject yields a root; the file lists are not resolved yet
InitRun ==
  /\ \E inter \in BOOLEAN :
       \E prj \in IF inter THEN {BasicProject} ELSE Projects \cup {EmptyProject},
          pkg \in PkgContents, cl \in CommandLines, inc \in IncrementFlags, dry \in BOOLEAN,
          located \in BOOLEAN :
         /\ ~located => prj = BasicProject
         /\ androidDisk = prj.android
         /\ iosDisk = prj.ios
         /\ pkgDisk = pkg
         /\ disk0 = [android |-> prj.android, ios |-> prj.ios, pkg |-> pkg]
         /\ options = InitOptions(cl, inc, dry)
         /\ env = [argvIncrement |-> inc.argvIncrement, interactive |-> inter,
                   located |-> located]
  /\ androidFiles = <<>>
  /\ iosFiles = <<>>
  /\ platforms = <<>>
  /\ pc = "Locate"
  /\ exitCode = -1
  /\ last = <<>>
  /\ arith = NoArith

\* index.js:51-61: no project root ends the run with exit code 1
Locate ==
  /\ pc = "Locate"
  /\ IF env.located THEN pc' = "Configure" /\ exitCode' = exitCode ELSE Exit(1)
  /\ UNCHANGED <<androidDisk, iosDisk, pkgDisk, disk0, androidFiles, iosFiles,
                 options, platforms, env, last, arith>>

\* index.js:66-67: loadProjectConfiguration returns a configuration
Configure ==
  /\ pc = "Configure"
  /\ pc' = "ResolveFiles"
  /\ UNCHANGED <<androidDisk, iosDisk, pkgDisk, disk0, androidFiles, iosFiles,
                 options, platforms, exitCode, env, last, arith>>

\* index.js:70-78: the lists of the existing files; both empty ends the run with
\* exit code 1
ResolveFiles ==
  /\ pc = "ResolveFiles"
  /\ androidFiles' = [i \in 1..Len(androidDisk) |-> i]
  /\ iosFiles' = [i \in 1..Len(iosDisk) |-> i]
  /\ IF Len(androidDisk) = 0 /\ Len(iosDisk) = 0
     THEN Exit(1)
     ELSE pc' = "SelectPlatforms" /\ exitCode' = exitCode
  /\ UNCHANGED <<androidDisk, iosDisk, pkgDisk, disk0, options, platforms, env, last, arith>>

NextRun ==
  \/ Locate
  \/ Configure
  \/ ResolveFiles
  \/ Next

\* the statements after executePlatformUpdates are synchronous: once the updates
\* are through, the report is printed
SpecRun == InitRun /\ [][NextRun]_vars /\ WF_vars(Report)

----------------------------------------------------------------------------
(* The order of the phases: C26 *)

Phases == <<"Locate", "Configure", "ResolveFiles", "SelectPlatforms", "SelectIncrement", "Confirm", "Mutate", "Report">>

PhaseOf(p) == CHOOSE i \in 1..Len(Phases) : Phases[i] = p

\* a step that changes the phase enters the next phase, or ends the run: after
\* Report successfully, from an earlier phase by an exit
PhaseStep ==
  pc' # pc =>
    /\ pc \in {Phases[i] : i \in 1..Len(Phases)}
    /\ IF pc = "Report" THEN pc' = "Done" /\ exitCode' = 0
       ELSE \/ pc' = "Exited" /\ exitCode' \in {0, 1}
            \/ pc' = Phases[PhaseOf(pc) + 1] /\ exitCode' = -1

\* Mutate has completed without a fatal error
MutateCompleted == pc = "Report"

RunSucceeded == pc = "Done" /\ exitCode = 0

\* C26: a run moves through Locate, Configure, ResolveFiles, SelectPlatforms,
\* SelectIncrement, Confirm, Mutate, Report in that order and never backward;
\* whenever Mutate completes without a fatal error, Report is reached and the
\* run ends successfully, also when the change log is empty because every file
\* was skipped.
C26_PhasesInOrder ==
  /\ [][PhaseStep]_vars
  /\ [](MutateCompleted => (last # <<>> => NoneThrew))
  /\ MutateCompleted ~> RunSucceeded
  /\ (MutateCompleted /\ options.changes = <<>>) ~> (RunSucceeded /\ options.changes = <<>>)

\* the run has ended successfully with an empty change log: the one file of the
\* selected platform was skipped
C26_Witness ==
  /\ RunSucceeded
  /\ options.changes = <<>>
  /\ last # <<>>
  /\ \A k \in 1..Len(last) : last[k].results = <<>>

----------------------------------------------------------------------------
(* The upward walk ends: C27 *)

\* the loop has run more often than there are directories from startDir upward
VisitsTwice == arith.iterations > Len(env.dirs)

\* the loop is over, or its next iteration is on a directory not visited yet
WalkAdvances ==
  /\ arith.fn = "detectReactNativeProject"
  /\ ~VisitsTwice
  /\ ~arith.returned => (ENABLED NextDetect /\ arith.currentDir = arith.iterations + 1)

\* C27 (as claimed): detectReactNativeProject terminates for every start
\* directory, absolute or relative: the upward walk visits each ancestor at
\* most once and always reaches its stop condition.
C27_WalkTerminates == WalkAdvances

\* from an absolute start directory the walk visits each ancestor at most once
\* and ends by returning
C27_AbsoluteWalkTerminates == ~env.relative => WalkAdvances

\* from a relative start directory under which nothing qualifies, the loop
\* is on '.' again
C27_RelativeWalkRepeats ==
  /\ env.relative
  /\ QualifyingDirs = {}
  /\ ~arith.returned
  /\ VisitsTwice
  /\ arith.currentDir = Len(env.dirs)

----------------------------------------------------------------------------
(* Written files stay recognizable: C28 *)

\* every file of the platform in which both field patterns matched at the start
\* is one in which both match now
StaysRecognizable(fn) ==
  \A path \in 1..Len(DiskOf(fn)) :
    Recognized(fn, Disk0Of(fn)[path]) => Recognized(fn, DiskOf(fn)[path])

\* a build number flag with a value the (\d+) of the field patterns cannot match
UnreadableOverride ==
  \E flag \in {options.versionCode, options.currentProjectVersion} :
    flag.t = "string" /\ ~Readable(ParseIntText(flag.s))

\* C28 (as claimed): a platform file stays recognizable: if both of its field
\* patterns match before a completed non-dry-run mutator call, both still match
\* after it, for every request, explicit overrides (negative, non-numeric or
\* non-semver values) included.
C28_StaysRecognizable ==
  (Completed /\ ~options.dryRun) => (StaysRecognizable("android") /\ StaysRecognizable("ios"))

\* the files stay recognizable in every run without an explicit build number
\* that the patterns cannot read
C28_RecognizableAfterReadableValues ==
  (Completed /\ ~options.dryRun /\ ~UnreadableOverride) =>
    (StaysRecognizable("android") /\ StaysRecognizable("ios"))

\* the run `--android-build-number=-1` has completed on the basic project and
\* build.gradle has no versionCode that the pattern matches
C28_NegativeBuildWitness ==
  /\ Completed /\ ~options.dryRun
  /\ options.versionCode = JStr(<<"-", "1">>)
  /\ disk0.android = <<GradleBasic>>
  /\ ~Recognized("android", androidDisk[1])

----------------------------------------------------------------------------
(* A dry run reports what the real run does: C29 *)

\* the options object of the same request with --dry-run, before any mutator
DryRunOptions == [options EXCEPT !.dryRun = TRUE, !.changes = <<>>, !.packageJsonUpdated = FALSE]

\* the change records that the dry run of the call on the resolved list appends,
\* from the files as they were at the start
DryRunChanges ==
  updateIOSVersions(World(disk0.android, disk0.ios, disk0.pkg, DryRunOptions), iosFiles,
                    last[1].build, last[1].version).options.changes

RealRunDone == pc = "updated" /\ ~options.dryRun /\ ~last[1].threw

\* C29 (as claimed): from the same starting files, configuration and request,
\* a dry run and a real run append the same sequence of change records (same
\* files, items, old values and new values).
C29_DryRunForetellsRealRun == RealRunDone => options.changes = DryRunChanges

\* the two sequences are the same when the patterns resolve to distinct paths
C29_SameWhenPathsDistinct ==
  (RealRunDone /\ \A path \in ResolvedPaths : Occurrences(path) <= 1)
    => options.changes = DryRunChanges

\* a file resolved twice: the real run records 1 -> 2 and then 2 -> 3 for its
\* build number, the dry run 1 -> 2 twice
C29_DuplicatePathWitness ==
  /\ RealRunDone
  /\ \E path \in ResolvedPaths : Occurrences(path) = 2
  /\ Len(options.changes) = Len(DryRunChanges)
  /\ \E k \in 1..Len(options.changes) :
       /\ options.changes[k].item = "CURRENT_PROJECT_VERSION"
       /\ options.changes[k].oldValue # DryRunChanges[k].oldValue

\* the same for the whole run of executeVersionBump on lists of distinct files
C29_RunSameAsDryRun ==
  (Completed /\ ~options.dryRun) =>
    options.changes =
      executePlatformUpdates(platforms, androidFiles, iosFiles,
                             World(disk0.android, disk0.ios, disk0.pkg, DryRunOptions)).w.options.changes

----------------------------------------------------------------------------
(* The package.json guard: C30 *)

\* C30 (as claimed): in a run that starts with the guard unset,
\* options.packageJsonUpdated is set at the end only if a change record against
\* package.json was appended in that run, so that the note of showNextSteps is
\* shown only when the update took place, not when package.json is missing or
\* has no version field.
C30_GuardOnlyWithRecord ==
  (Completed /\ options.packageJsonUpdated) => PackageRecords # {}

\* the guard is set only with a record when package.json has a version; and a
\* record is never appended without the guard being set, nor more than once
C30_GuardWithRecordWhenVersioned ==
  Completed =>
    /\ (options.packageJsonUpdated /\ ManifestHasVersion) => PackageRecords # {}
    /\ PackageRecords # {} => (options.packageJsonUpdated /\ ManifestHasVersion)
    /\ Cardinality(PackageRecords) <= 1

\* the run has ended with the guard set although there is no package.json and
\* no record against it
C30_MissingManifestWitness ==
  /\ pc = "Done"
  /\ ~disk0.pkg.exists
  /\ options.packageJsonUpdated
  /\ PackageRecords = {}

====
